---- MODULE Spec2Model ----
(***************************************************************************)
(* A model of the daemon resilience layer of Syncause/mcp-server:          *)
(*   - DaemonMonitor          (src/src/common/daemon-monitor.ts)           *)
(*   - AxiosTransport         (src/unnamed/part_003)                       *)
(*   - main / startDaemon     (src/CHANGELOG.md, lines 211-350)            *)
(*   - handleExit             (src/CHANGELOG.md, lines 292-305) with       *)
(*     PostHogClient.shutdown (src/unnamed/part_004, lines 195-206)        *)
(* Every activation of an async function is a record in a sequence; its pc *)
(* names the await it is suspended at.                                     *)
(***************************************************************************)
EXTENDS Integers, Sequences, FiniteSets, TLC

VARIABLES
    \* ---- environment
    lockFile,       \* what the lock descriptor holds on disk
    procProbe,      \* what process.kill(pid, 0) would report
    lockSeen,       \* the lock descriptor has existed at some time of the run
    \* ---- DaemonMonitor
    isAlive,        \* "undefined" | "true" | "false"
    isChecking,     \* the re-entrancy flag
    monitorTimer,   \* the handle start() keeps: 0 (undefined) or a timer id
    timers,         \* the interval timers that are set
    timersMade,     \* setInterval calls so far
    polls,          \* activations of check()
    ticks,          \* timer firings so far
    downCalls,      \* invocations of onDaemonDown
    aliveCalls,     \* invocations of onDaemonAlive
    lastCb,         \* the callback invoked last: "none" | "down" | "alive"
    reads,          \* readFile calls made
    probes,         \* process.kill(pid, 0) calls made
    \* ---- main
    mode,           \* "local" | "remote"
    skipDaemon,     \* SKIP_DAEMON === "true"
    mainPc,         \* position of the background initialisation
    isApiKeyValid,  \* state.isApiKeyValid
    launches,       \* invocations of startDaemon
    spawns,         \* spawn() calls made
    proc,           \* the process: "running" | "crashed" | "exited"
    exits,          \* activations of handleExit
    scanning,       \* projectManager's scan timer is set
    \* ---- AxiosTransport
    isClosing,      \* the closing flag
    conns,          \* activations of connect()
    reqs,           \* activations of request()
    connectCalls,   \* invocations of connect()
    sinceClose,     \* "never" | "closed" | "reconnected": close()/connect() calls seen
    calls,          \* API calls made by the transport's client
    rcalls,         \* activations of RpcClient.call
    \* ---- ProjectManager and the MCP tool handler
    configFile,     \* the project config file: "absent", or its entries in order
    cache,          \* ProjectManager.cache: normalized path -> projectId (0: none)
    acts            \* activations of scan(), ensureProject() and handleToolCall()

envVars     == <<lockFile, procProbe, lockSeen>>
timerVars   == <<monitorTimer, timers, timersMade>>
monitorVars == <<isAlive, isChecking, timerVars, polls, ticks, downCalls,
                 aliveCalls, lastCb, reads, probes>>
exitVars    == <<proc, exits, scanning>>
mainVars    == <<mode, skipDaemon, mainPc, isApiKeyValid, launches, spawns, exitVars>>
transVars   == <<isClosing, conns, reqs, connectCalls, sinceClose, calls, rcalls>>
pmVars      == <<configFile, cache, acts>>
vars        == <<envVars, monitorVars, mainVars, transVars, pmVars>>

(***************************************************************************)
(* Bounds of the model.                                                    *)
(***************************************************************************)
MaxTicks == 3
MaxCalls == 3
MaxSignals == 1

(***************************************************************************)
(* Program constants.                                                      *)
(***************************************************************************)
MaxAttempts      == 3
INVALID_REQUEST  == -32600
INTERNAL_ERROR   == -32603
TRANSPORT_ERROR  == -32099
DiagLimit        == 200
ServerStatus     == 500

\* What the lock descriptor holds: nothing (the file is absent), no text, a text
\* parseInt makes nothing of, a decimal PID.
LockStates  == {"absent", "empty", "nan", "pid"}
\* The same, and a decimal PID followed by other text ("4242 stale", "4242.5").
LockContents == LockStates \cup {"pidJunk"}
ProbeStates == {"ok", "ESRCH", "EPERM"}

\* The fault codes request() classifies as connection errors.
ConnErrorCodes == {"ECONNREFUSED", "ENOENT", "ECONNRESET", "ETIMEDOUT",
                   "ENOTFOUND", "EPIPE"}
\* What an exchange can throw: a connection fault, or axios' own timeout code.
FaultCodes     == ConnErrorCodes \cup {"ECONNABORTED"}
\* The faults drawn for the attempts of connect().
PingFaults     == {"ECONNREFUSED", "ECONNABORTED"}

Remove(s, k) == SubSeq(s, 1, k - 1) \o SubSeq(s, k + 1, Len(s))

(***************************************************************************)
(* ProjectManager: paths, the config file and the cache                    *)
(***************************************************************************)
\* The project paths callers pass: two spellings of one directory, and another.
ProjectPaths == {"/w/app", "/W/./App", "/w/lib"}

\* path.normalize, and String.prototype.toLowerCase, on these paths.
Normalize(p) == IF p = "/W/./App" THEN "/W/App" ELSE p
ToLowerCase(p) == IF p = "/W/App" THEN "/w/app" ELSE p
\* The cache key of a path: path.normalize(p).toLowerCase().
NormalizedPath(p) == ToLowerCase(Normalize(p))
Keys == {NormalizedPath(p) : p \in ProjectPaths}

\* An entry of the config file.
Entry(p, id) == [path |-> p, id |-> id]
\* The id of a project that was written to the file before the server started.
ExternalId == 9
EmptyCache == [k \in Keys |-> 0]

MaxOf(S) == CHOOSE m \in S : \A n \in S : n <= m

\* The Map scan() builds from the parsed entries: a later entry of a key replaces
\* an earlier one.
NewCache(entries) ==
    [k \in Keys |->
        LET at == {i \in 1..Len(entries) : NormalizedPath(entries[i].path) = k}
        IN  IF at = {} THEN 0 ELSE entries[MaxOf(at)].id]

Size(c) == Cardinality({k \in Keys : c[k] # 0})

\* The test scan() makes before it replaces the cache.
HasChanged(new, old) ==
    \/ Size(new) # Size(old)
    \/ \E k \in Keys : new[k] # 0 /\ (old[k] = 0 \/ old[k] # new[k])

\* The cache scan() leaves after it has read content from the file; a read that
\* throws (the file is gone) leaves the cache as it was.
ScanCache(content, old) ==
    IF content = "absent" THEN old
    ELSE IF HasChanged(NewCache(content), old) THEN NewCache(content) ELSE old

\* hasProjectId
HasProjectId(c, id) == \E k \in Keys : c[k] = id

(***************************************************************************)
(* AxiosTransport.connect                                                  *)
(***************************************************************************)
\* The id of a handshake envelope: "ping-" followed by the clock's milliseconds.
PingId(ms) == [prefix |-> "ping-", ms |-> ms]
\* Milliseconds the clock advances between the post of an attempt that fails and the
\* post of the next one when no delay is taken: a refused local connection fails
\* within the millisecond.
PostMillis == {0, 1}
RetryDelay == 500

\* connect() up to its first await: the flag is cleared and attempt 1 is posted.
\* ids holds the id of every envelope posted, the clock counted from this moment.
NewConn(owner) ==
    [owner |-> owner, i |-> 0, lastError |-> "none", attempts |-> <<>>,
     pc |-> "posting", thrown |-> "none", ids |-> <<PingId(0)>>,
     seen |-> [kind |-> "none", status |-> 0, body |-> "null"]]

\* The envelope of the next attempt, built at the clock's reading when it is posted.
PostNext(c, dt) ==
    [c EXCEPT !.ids = Append(@, PingId(@[Len(@)].ms + dt))]

ConnectBegin(owner) ==
    /\ isClosing' = FALSE
    /\ conns' = Append(conns, NewConn(owner))
    /\ connectCalls' = connectCalls + 1
    /\ sinceClose' = IF sinceClose = "never" THEN "never" ELSE "reconnected"

\* The catch block of one attempt: what the activation does after attempt i failed
\* with error e.
AfterFailureKeepFirst(c, e, closing) ==
    LET c1 == [c EXCEPT !.lastError = IF @ = "none" THEN e ELSE @,
                        !.attempts = Append(@, e)]
    IN  IF c.i < MaxAttempts - 1
        THEN IF ~closing
             THEN [c1 EXCEPT !.pc = "delay"]
             ELSE [c1 EXCEPT !.i = @ + 1, !.pc = "posting"]
        ELSE [c1 EXCEPT !.pc = "threw", !.thrown = c1.lastError]

AfterFailureNoDelay(c, e, closing) ==
    LET c1 == [c EXCEPT !.lastError = e, !.attempts = Append(@, e)]
    IN  IF c.i < MaxAttempts - 1
        THEN [c1 EXCEPT !.i = @ + 1, !.pc = "posting"]
        ELSE [c1 EXCEPT !.pc = "threw", !.thrown = c1.lastError]

AfterFailure(c, e, closing) ==
    LET c1 == [c EXCEPT !.lastError = e, !.attempts = Append(@, e)]
    IN  IF c.i < MaxAttempts - 1
        THEN IF ~closing
             THEN [c1 EXCEPT !.pc = "delay"]
             ELSE [c1 EXCEPT !.i = @ + 1, !.pc = "posting"]
        ELSE [c1 EXCEPT !.pc = "threw", !.thrown = c1.lastError]

\* What the await of axiosInstance.post does with exchange x: with validateStatus
\* always true every reply resolves it, and only a fault (the 2000 ms timeout is
\* the fault ECONNABORTED) rejects it, with the fault's code.
PingOutcomeChecksStatus(x) ==
    IF x.kind = "reply"
    THEN IF x.status >= 200 /\ x.status < 300 THEN "ok" ELSE "ERR_BAD_RESPONSE"
    ELSE x.fault
PingOutcome(x) == IF x.kind = "reply" THEN "ok" ELSE x.fault

\* What an activation keeps of the exchange of its latest attempt.
PingSeen(x) == [kind |-> x.kind, status |-> x.status, body |-> x.body.type]

ConnectPostOk(k, x) ==
    /\ conns[k].pc = "posting"
    /\ PingOutcome(x) = "ok"
    /\ conns' = [conns EXCEPT ![k] = [@ EXCEPT !.attempts = Append(@, "ok"),
                                               !.pc = "returned",
                                               !.seen = PingSeen(x)]]
    /\ UNCHANGED <<isClosing, reqs, connectCalls, sinceClose, calls, rcalls, pmVars>>

ConnectPostFail(k, x, dt) ==
    /\ conns[k].pc = "posting"
    /\ PingOutcome(x) # "ok"
    /\ conns' = [conns EXCEPT ![k] =
                    LET c == AfterFailure([conns[k] EXCEPT !.seen = PingSeen(x)],
                                          PingOutcome(x), isClosing)
                    IN  IF c.pc = "posting" THEN PostNext(c, dt) ELSE c]
    /\ UNCHANGED <<isClosing, reqs, connectCalls, sinceClose, calls, rcalls, pmVars>>

ConnectDelayDone(k) ==
    /\ conns[k].pc = "delay"
    /\ conns' = [conns EXCEPT ![k] =
                    PostNext([@ EXCEPT !.i = @ + 1, !.pc = "posting"], RetryDelay)]
    /\ UNCHANGED <<isClosing, reqs, connectCalls, sinceClose, calls, rcalls, pmVars>>

ConnSettled(c) == c.pc \in {"returned", "threw"}

(***************************************************************************)
(* AxiosTransport.request and close                                        *)
(***************************************************************************)
ReqIds      == {1, 2}
Statuses    == {200, 404, 499, 500, 503}
TextLens    == {0, 3, 200, 201, 204}
METHOD_NOT_FOUND == -32601

Min(a, b) == IF a < b THEN a ELSE b

\* A text of n characters; the characters differ along the text.
Text(n) == [i \in 1..n |-> i % 7]
\* The literal "Unknown Server Error".
UnknownServerError == [i \in 1..20 |-> 9]
NoText == <<>>

\* String.prototype.substring(a, b) for 0 <= a <= b.
Substring(s, a, b) == SubSeq(s, a + 1, Min(b, Len(s)))

\* response.data as the daemon (or whatever answers) sent it.
Body(type, tag, id, has, code, text) ==
    [type |-> type, jsonrpc |-> tag, id |-> id, has |-> has, code |-> code,
     text |-> text]

Bodies ==
    {Body("object", "2.0", i, h, IF h = "error" THEN METHOD_NOT_FOUND ELSE 0, NoText) :
        i \in ReqIds, h \in {"result", "error", "none"}}
    \cup {Body("object", "none", 0, "none", 0, NoText)}
    \cup {Body("string", "none", 0, "none", 0, Text(n)) : n \in TextLens}
    \cup {Body("null", "none", 0, "none", 0, NoText)}

StatusTexts == {NoText, Text(3)}

NoBody  == Body("null", "none", 0, "none", 0, NoText)
NoExch  == [kind |-> "none", status |-> 0, body |-> NoBody, statusText |-> NoText,
            fault |-> "none"]
Reply(status, body, statusText) ==
    [kind |-> "reply", status |-> status, body |-> body, statusText |-> statusText,
     fault |-> "none"]
Fault(code) ==
    [kind |-> "fault", status |-> 0, body |-> NoBody, statusText |-> NoText,
     fault |-> code]

\* An RpcResponse. message is (what the text says, the status in it, the diagnostic
\* embedded in it); data is "none", "body" (response.data) or a fault code.
Response(id, has, code, message, data) ==
    [jsonrpc |-> "2.0", id |-> id, has |-> has, code |-> code, message |-> message,
     data |-> data]
Message(what, status, diag) == [what |-> what, status |-> status, diag |-> diag]
NoResponse == [jsonrpc |-> "none", id |-> 0, has |-> "none", code |-> 0,
               message |-> Message("none", 0, NoText), data |-> "none"]

\* The response request() returns at once when the transport is closing.
ClosingResponse(id) ==
    Response(id, "error", INTERNAL_ERROR, Message("Transport is closing", 0, NoText),
             "none")

\* The test request() makes of response.data before returning it as an RpcResponse.
IsRpcBody(b) == b.type = "object" /\ b.jsonrpc = "2.0"

\* response.data returned as it is.
Verbatim(b) ==
    [jsonrpc |-> b.jsonrpc, id |-> b.id, has |-> b.has, code |-> b.code,
     message |-> Message(IF b.has = "error" THEN "daemon" ELSE "none", 0, NoText),
     data |-> "none"]

ErrorMessage(x) ==
    IF x.body.type = "string" THEN x.body.text
    ELSE IF x.statusText # NoText THEN x.statusText ELSE UnknownServerError

NonRpcCodeClientClass(status) ==
    IF status > ServerStatus THEN INTERNAL_ERROR ELSE INVALID_REQUEST

NonRpcCode(status) ==
    IF status >= ServerStatus THEN INTERNAL_ERROR ELSE INVALID_REQUEST

\* The response synthesized for a body that is not taken as an RpcResponse.
NonRpcResponse(id, x) ==
    Response(id, "error", NonRpcCode(x.status),
             Message("Server returned non-RPC response", x.status,
                     Substring(ErrorMessage(x), 0, DiagLimit)),
             "body")

\* The response synthesized in the catch block.
TransportErrorResponseNoData(id, x) ==
    Response(id, "error", TRANSPORT_ERROR, Message("Transport Error", 0, NoText),
             "none")

TransportErrorResponse(id, x) ==
    Response(id, "error", TRANSPORT_ERROR, Message("Transport Error", 0, NoText),
             x.fault)

\* What request(id) resolves to when its exchange ended as x.
RequestOutcomeOkStatusOnly(id, x) ==
    IF x.kind = "fault" THEN TransportErrorResponse(id, x)
    ELSE IF IsRpcBody(x.body) /\ x.status < 400 THEN Verbatim(x.body)
    ELSE NonRpcResponse(id, x)

RequestOutcome(id, x) ==
    IF x.kind = "fault" THEN TransportErrorResponse(id, x)
    ELSE IF IsRpcBody(x.body) THEN Verbatim(x.body)
    ELSE NonRpcResponse(id, x)

\* The test request() makes before any I/O.
ShortCircuitsNever(closing) == FALSE
ShortCircuits(closing) == closing

\* request(req) up to its first await. afterClose records what close()/connect()
\* calls preceded the call; net whether a network call was made.
RequestBegin(id) ==
    /\ reqs' = Append(reqs,
          IF ShortCircuits(isClosing)
          THEN [id |-> id, afterClose |-> sinceClose, pc |-> "resolved", net |-> FALSE,
                exch |-> NoExch, resp |-> ClosingResponse(id)]
          ELSE [id |-> id, afterClose |-> sinceClose, pc |-> "posting", net |-> TRUE,
                exch |-> NoExch, resp |-> NoResponse])
    /\ UNCHANGED <<isClosing, conns, connectCalls, sinceClose>>

\* The exchange of request k ends as x.
RequestSettle(k, x) ==
    /\ reqs[k].pc = "posting"
    /\ reqs' = [reqs EXCEPT ![k] = [@ EXCEPT !.pc = "resolved", !.exch = x,
                                             !.resp = RequestOutcome(reqs[k].id, x)]]
    /\ UNCHANGED <<isClosing, conns, connectCalls, sinceClose, calls, rcalls, pmVars>>

\* close()
CloseAgentsOnly ==
    /\ isClosing' = isClosing
    /\ sinceClose' = "closed"
    /\ UNCHANGED <<conns, reqs, connectCalls>>

Close ==
    /\ isClosing' = TRUE
    /\ sinceClose' = "closed"
    /\ UNCHANGED <<conns, reqs, connectCalls>>

(***************************************************************************)
(* main: startDaemon and the callbacks handed to DaemonMonitor             *)
(***************************************************************************)
\* startDaemon(config): returns at once under SKIP_DAEMON, else spawns detached.
StartDaemon ==
    /\ launches' = launches + 1
    /\ spawns' = IF skipDaemon THEN spawns ELSE spawns + 1

\* How the spawn() call of startDaemon ends: it is not made under SKIP_DAEMON; else it
\* returns a child (a later 'error' event is logged by the listener) or throws.
SpawnResults(skip) == IF skip THEN {"none"} ELSE {"child", "threw"}

\* The position of a poll that awaits onDaemonDown: the promise of the callback
\* rejects when startDaemon threw.
DownPc(res) == IF res = "threw" THEN "downRejects" ELSE "inDown"

\* onDaemonDown as main wires it: await startDaemon(config).
OnDaemonDownLogOnly ==
    /\ UNCHANGED <<launches, spawns>>
    /\ UNCHANGED <<isClosing, conns, connectCalls, sinceClose>>

OnDaemonDown ==
    /\ StartDaemon
    /\ UNCHANGED <<isClosing, conns, connectCalls, sinceClose>>

\* onDaemonAlive as main wires it: try { await transport.connect() } catch { log }.
OnDaemonAlive ==
    /\ ConnectBegin("monitor")
    /\ UNCHANGED <<launches, spawns>>

(***************************************************************************)
(* DaemonMonitor                                                           *)
(***************************************************************************)
\* checkDaemonAlive once the file is known to exist and readFile has settled:
\* content is what the read returned ("absent": it threw), probe what kill reports.
ParseInt(content) == IF content \in {"pid", "pidJunk"} THEN "number" ELSE "NaN"

CheckDaemonAliveReadErrorKeeps(content, probe, alive) ==
    CASE content = "absent"         -> IF alive = "undefined" THEN "false" ELSE alive
      [] content = "empty"          -> IF alive = "undefined" THEN "false" ELSE alive
      [] ParseInt(content) = "NaN"  -> "false"
      [] OTHER                      -> IF probe = "ESRCH" THEN "false" ELSE "true"

CheckDaemonAliveOnlyIfOwned(content, probe, alive) ==
    CASE content = "absent"         -> "false"
      [] content = "empty"          -> IF alive = "undefined" THEN "false" ELSE alive
      [] ParseInt(content) = "NaN"  -> "false"
      [] OTHER                      -> IF probe = "ok" THEN "true" ELSE "false"

CheckDaemonAlive(content, probe, alive) ==
    CASE content = "absent"         -> "false"
      [] content = "empty"          -> IF alive = "undefined" THEN "false" ELSE alive
      [] ParseInt(content) = "NaN"  -> "false"
      [] OTHER                      -> IF probe = "ESRCH" THEN "false" ELSE "true"

\* What checkDaemonAlive returns when existsSync finds no lock file.
NotFoundKeepsState(alive) == IF alive = "undefined" THEN "false" ELSE alive
NotFound(alive) == "false"

\* The re-entrancy test at the top of check().
BusyNever(flag) == FALSE
Busy(flag) == flag

\* The edge test: this.isAlive !== currentlyAlive.
ChangedAlways(stored, cur) == TRUE
ChangedOrDead(stored, cur) == stored # cur \/ cur = "false"
Changed(stored, cur) == stored # cur

\* The finally block of check().
FinallyKeepsFlag == UNCHANGED isChecking
Finally == isChecking' = FALSE

\* The body of check() up to its first await.
CheckBegin ==
    IF Busy(isChecking)
    THEN UNCHANGED <<isChecking, polls, reads>>
    ELSE /\ isChecking' = TRUE
         /\ IF lockFile = "absent"
            THEN /\ polls' = Append(polls, [pc |-> "resolved", cur |-> NotFound(isAlive),
                                            raw |-> "absent"])
                 /\ reads' = reads
            ELSE /\ polls' = Append(polls, [pc |-> "reading", cur |-> "undefined",
                                            raw |-> "none"])
                 /\ reads' = reads + 1

\* The timers left set by stop() when the handle is h.
Cleared(ts, h) == IF h # 0 THEN ts \ {h} ELSE ts

\* stop()
StopHandleOnly ==
    /\ timers' = timers
    /\ monitorTimer' = 0
    /\ UNCHANGED timersMade

Stop ==
    /\ timers' = Cleared(timers, monitorTimer)
    /\ monitorTimer' = 0
    /\ UNCHANGED timersMade

\* start(): stop(), the immediate check(), then setInterval.
StartWithoutStop ==
    /\ CheckBegin
    /\ timersMade' = timersMade + 1
    /\ monitorTimer' = timersMade + 1
    /\ timers' = timers \cup {timersMade + 1}
    /\ UNCHANGED isAlive

StartResetsState ==
    /\ CheckBegin
    /\ timersMade' = timersMade + 1
    /\ monitorTimer' = timersMade + 1
    /\ timers' = Cleared(timers, monitorTimer) \cup {timersMade + 1}
    /\ isAlive' = "undefined"

Start ==
    /\ CheckBegin
    /\ timersMade' = timersMade + 1
    /\ monitorTimer' = timersMade + 1
    /\ timers' = Cleared(timers, monitorTimer) \cup {timersMade + 1}
    /\ UNCHANGED isAlive

\* A firing of an interval timer.
Tick ==
    /\ proc = "running"
    /\ timers # {}
    /\ ticks < MaxTicks
    /\ ticks' = ticks + 1
    /\ CheckBegin
    /\ UNCHANGED <<envVars, isAlive, timerVars, downCalls, aliveCalls, lastCb,
                   probes, mainVars, transVars, pmVars>>

\* readFile settles; checkDaemonAlive runs to its return.
ReadDone(k) ==
    /\ proc = "running"
    /\ polls[k].pc = "reading"
    /\ polls' = [polls EXCEPT ![k] =
                   [pc  |-> "resolved",
                    cur |-> CheckDaemonAlive(lockFile, procProbe, isAlive),
                    raw |-> IF lockFile = "absent" THEN "ENOENT" ELSE lockFile]]
    /\ probes' = IF ParseInt(lockFile) = "number" THEN probes + 1 ELSE probes
    /\ UNCHANGED <<envVars, isAlive, isChecking, timerVars, ticks, downCalls,
                   aliveCalls, lastCb, reads, mainVars, transVars, pmVars>>

\* check() from the comparison on: store the new state and invoke the callback, or
\* fall through to finally.
Compare(k) ==
    /\ proc = "running"
    /\ polls[k].pc = "resolved"
    /\ IF Changed(isAlive, polls[k].cur)
       THEN /\ isAlive' = polls[k].cur
            /\ UNCHANGED isChecking
            /\ IF polls[k].cur = "true"
               THEN /\ polls' = [polls EXCEPT ![k].pc = "inAlive"]
                    /\ aliveCalls' = aliveCalls + 1
                    /\ lastCb' = "alive"
                    /\ OnDaemonAlive
                    /\ UNCHANGED downCalls
               ELSE /\ \E res \in SpawnResults(skipDaemon) :
                          polls' = [polls EXCEPT ![k].pc = DownPc(res)]
                    /\ downCalls' = downCalls + 1
                    /\ lastCb' = "down"
                    /\ OnDaemonDown
                    /\ UNCHANGED aliveCalls
       ELSE /\ Finally
            /\ polls' = Remove(polls, k)
            /\ UNCHANGED <<isAlive, downCalls, aliveCalls, lastCb, launches, spawns,
                           isClosing, conns, connectCalls, sinceClose>>
    /\ UNCHANGED <<envVars, timerVars, ticks, reads, probes, mode, skipDaemon,
                   mainPc, isApiKeyValid, exitVars, reqs, calls, rcalls, pmVars>>

\* The awaited callback settles; finally clears the flag. check() has no catch and
\* nothing awaits or catches the promise of check(): when the callback rejected, the
\* rejection of check() is unhandled and ends the process.
CallbackDone(k) ==
    /\ proc = "running"
    /\ \/ /\ polls[k].pc = "inDown"
          /\ UNCHANGED <<conns, proc>>
       \/ /\ polls[k].pc = "downRejects"
          /\ proc' = "crashed"
          /\ UNCHANGED conns
       \/ /\ polls[k].pc = "inAlive"
          /\ \E j \in 1..Len(conns) :
                /\ conns[j].owner = "monitor"
                /\ ConnSettled(conns[j])
                /\ conns' = Remove(conns, j)
          /\ UNCHANGED proc
    /\ Finally
    /\ polls' = Remove(polls, k)
    /\ UNCHANGED <<envVars, isAlive, timerVars, ticks, downCalls, aliveCalls,
                   lastCb, reads, probes, mode, skipDaemon, mainPc, isApiKeyValid,
                   launches, spawns, exits, scanning, isClosing, reqs,
                   connectCalls, sinceClose, calls, rcalls, pmVars>>

(***************************************************************************)
(* main: the background initialisation                                     *)
(***************************************************************************)
\* The test that decides between daemon monitoring and the one-shot connect.
SupervisedWhenLocal(m, skip) == m = "local"
Supervised(m, skip) == m = "local" /\ ~skip

\* What the credential service answers: a body with success true, a body without
\* it, no body, a reply axios rejects for its status, no reply at all.
ValidationReplies == {"successTrue", "successFalse", "noData", "httpError", "netFault"}

\* validateApiKey: returns on a body with success === true, throws otherwise.
ValidateApiKey(reply) == IF reply = "successTrue" THEN "returns" ELSE "throws"

ValidateOk ==
    /\ proc = "running"
    /\ mainPc = "validating"
    /\ \E r \in ValidationReplies : ValidateApiKey(r) = "returns"
    /\ isApiKeyValid' = "true"
    /\ IF Supervised(mode, skipDaemon)
       THEN /\ mainPc' = "monitoring"
            /\ Start
            /\ UNCHANGED <<transVars, pmVars>>
       ELSE /\ mainPc' = "connecting"
            /\ ConnectBegin("main")
            /\ UNCHANGED <<isAlive, isChecking, polls, reads, timerVars, reqs, calls,
                           rcalls, pmVars>>
    /\ UNCHANGED <<envVars, ticks, downCalls, aliveCalls, lastCb, probes,
                   mode, skipDaemon, launches, spawns, exitVars>>

\* The catch block of the background initialisation.
ValidateFailThenMonitors ==
    /\ proc = "running"
    /\ mainPc = "validating"
    /\ \E r \in ValidationReplies : ValidateApiKey(r) = "throws"
    /\ isApiKeyValid' = "false"
    /\ mainPc' = "failed"
    /\ Start
    /\ UNCHANGED <<envVars, ticks, downCalls, aliveCalls, lastCb, probes, mode,
                   skipDaemon, launches, spawns, exitVars, transVars, pmVars>>

ValidateFail ==
    /\ proc = "running"
    /\ mainPc = "validating"
    /\ \E r \in ValidationReplies : ValidateApiKey(r) = "throws"
    /\ isApiKeyValid' = "false"
    /\ mainPc' = "failed"
    /\ UNCHANGED <<envVars, monitorVars, mode, skipDaemon, launches, spawns,
                   exitVars, transVars, pmVars>>

\* transport.connect().catch(log): the one-shot connect of remote / SKIP_DAEMON mode.
MainConnectDone ==
    /\ proc = "running"
    /\ mainPc = "connecting"
    /\ \E j \in 1..Len(conns) :
          /\ conns[j].owner = "main"
          /\ ConnSettled(conns[j])
          /\ conns' = Remove(conns, j)
    /\ mainPc' = "connected"
    /\ UNCHANGED <<envVars, monitorVars, mode, skipDaemon, isApiKeyValid, launches,
                   spawns, exitVars, isClosing, reqs, connectCalls, sinceClose, calls, rcalls, pmVars>>

(***************************************************************************)
(* main: handleExit, run on SIGINT, SIGTERM and the end of stdin           *)
(***************************************************************************)
\* How client.shutdown() of posthog settles.
FlushOutcomes == {"flushed", "flushFailed"}

\* The process while handleExit is suspended at `await posthog.shutdown()`.
AwaitingFlushExited == "exited"
AwaitingFlush == "running"

\* Whether posthog holds a client (init() at module load may have failed): nothing
\* reads it before the first posthog.shutdown(), which every later one agrees with.
PosthogClient == IF exits = <<>> THEN BOOLEAN ELSE {exits[1].pc = "flushing"}

\* handleExit(signal) up to its await: the monitor (if main has created one) and the
\* project scan are stopped and posthog.shutdown() is called, which returns at once
\* without a client and else awaits client.shutdown().
HandleExit ==
    /\ proc = "running"
    /\ Len(exits) < MaxSignals
    /\ IF mainPc = "monitoring" THEN Stop ELSE UNCHANGED timerVars
    /\ scanning' = FALSE
    /\ proc' = AwaitingFlush
    /\ \E client \in PosthogClient :
          exits' = Append(exits,
             [pc    |-> IF client THEN "flushing" ELSE "noClient",
              steps |-> (IF mainPc = "monitoring" THEN <<"monitor.stop">> ELSE <<>>)
                        \o <<"stopScanning", "posthog.shutdown">>])
    /\ UNCHANGED <<envVars, isAlive, isChecking, polls, ticks, downCalls, aliveCalls,
                   lastCb, reads, probes, mode, skipDaemon, mainPc, isApiKeyValid,
                   launches, spawns, transVars, pmVars>>

\* handleExit after its await: client.shutdown() has settled as o (posthog.shutdown
\* logs a failure and returns), or there was no client; then process.exit(0).
HandleExitResume(k, o) ==
    /\ proc = "running"
    /\ \/ exits[k].pc = "flushing" /\ o \in FlushOutcomes
       \/ exits[k].pc = "noClient" /\ o = "noClient"
    /\ exits' = [exits EXCEPT ![k] = [pc    |-> "exited",
                                       steps |-> @.steps \o <<o, "process.exit">>]]
    /\ proc' = "exited"
    /\ UNCHANGED <<envVars, monitorVars, mode, skipDaemon, mainPc, isApiKeyValid,
                   launches, spawns, scanning, transVars, pmVars>>

(***************************************************************************)
(* Environment                                                             *)
(***************************************************************************)
\* The daemon (or anything else) rewrites or removes the lock descriptor.
SetLock(v) ==
    /\ proc = "running"
    /\ lockFile # v
    /\ lockFile' = v
    /\ lockSeen' = (lockSeen \/ v # "absent")
    /\ UNCHANGED <<procProbe, monitorVars, mainVars, transVars, pmVars>>

\* The process named by the descriptor starts, exits or changes owner.
SetProbe(v) ==
    /\ proc = "running"
    /\ procProbe # v
    /\ procProbe' = v
    /\ UNCHANGED <<lockFile, lockSeen, monitorVars, mainVars, transVars, pmVars>>

\* The exchanges drawn for the attempts of connect(): a daemon that answers the
\* ping, or a fault.
FewPings ==
    {Reply(200, Body("object", "2.0", 1, "result", 0, NoText), NoText)}
    \cup {Fault(f) : f \in PingFaults}
\* The same, and whatever else can answer: any status, any body.
AllPings ==
    {Reply(s, b, NoText) : s \in Statuses, b \in Bodies}
    \cup {Fault(f) : f \in PingFaults}

\* The network settles one step of a connect(); X holds the exchanges drawn for an
\* attempt, D the clock advances drawn for an attempt that fails.
ConnSettle(D, X) ==
    /\ proc = "running"
    /\ \E k \in 1..Len(conns) :
          \/ \E x \in X : ConnectPostOk(k, x)
          \/ \E x \in X : \E dt \in D : ConnectPostFail(k, x, dt)
          \/ ConnectDelayDone(k)
    /\ UNCHANGED <<envVars, monitorVars, mainVars>>

\* A daemon that answers the ping or a fault, each failing attempt taking a
\* millisecond of the clock.
ConnStep == ConnSettle({1}, FewPings)

\* Whatever can answer, a failing attempt taking a millisecond or less than one.
ConnStepTimed == ConnSettle(PostMillis, AllPings)

Init ==
    /\ lockFile \in LockStates
    /\ procProbe \in ProbeStates
    /\ lockSeen = (lockFile # "absent")
    /\ isAlive = "undefined"
    /\ isChecking = FALSE
    /\ monitorTimer = 0
    /\ timers = {}
    /\ timersMade = 0
    /\ polls = <<>>
    /\ ticks = 0
    /\ downCalls = 0
    /\ aliveCalls = 0
    /\ lastCb = "none"
    /\ reads = 0
    /\ probes = 0
    /\ mode \in {"local", "remote"}
    /\ skipDaemon \in BOOLEAN
    /\ mainPc = "validating"
    /\ isApiKeyValid = "undefined"
    /\ launches = 0
    /\ spawns = 0
    /\ proc = "running"
    /\ exits = <<>>
    /\ scanning = TRUE
    /\ isClosing = FALSE
    /\ conns = <<>>
    /\ reqs = <<>>
    /\ connectCalls = 0
    /\ sinceClose = "never"
    /\ calls = 0
    /\ rcalls = <<>>
    /\ configFile = <<>>
    /\ cache = EmptyCache
    /\ acts = <<>>

Next ==
    \/ ValidateOk
    \/ ValidateFail
    \/ MainConnectDone
    \/ HandleExit
    \/ \E k \in 1..Len(exits) :
          \E o \in FlushOutcomes \cup {"noClient"} : HandleExitResume(k, o)
    \/ Tick
    \/ \E k \in 1..Len(polls) : ReadDone(k)
    \/ \E k \in 1..Len(polls) : Compare(k)
    \/ \E k \in 1..Len(polls) : CallbackDone(k)
    \/ ConnStep
    \/ \E v \in LockStates : SetLock(v)
    \/ \E v \in ProbeStates : SetProbe(v)

Spec == Init /\ [][Next]_vars

(***************************************************************************)
(* The transport under an arbitrary client: any sequence and interleaving  *)
(* of connect(), request() and close() calls.                              *)
(***************************************************************************)
ClientConnect ==
    /\ calls < MaxCalls
    /\ calls' = calls + 1
    /\ UNCHANGED <<rcalls, pmVars>>
    /\ ConnectBegin("client")
    /\ UNCHANGED <<envVars, monitorVars, mainVars, reqs>>

ClientRequest(id) ==
    /\ calls < MaxCalls
    /\ calls' = calls + 1
    /\ UNCHANGED <<rcalls, pmVars>>
    /\ RequestBegin(id)
    /\ UNCHANGED <<envVars, monitorVars, mainVars>>

ClientClose ==
    /\ calls < MaxCalls
    /\ calls' = calls + 1
    /\ UNCHANGED <<rcalls, pmVars>>
    /\ Close
    /\ UNCHANGED <<envVars, monitorVars, mainVars>>

\* The client receives the outcome of a settled connect().
ClientConnectDone(k) ==
    /\ conns[k].owner = "client"
    /\ ConnSettled(conns[k])
    /\ conns' = Remove(conns, k)
    /\ UNCHANGED <<envVars, monitorVars, mainVars, isClosing, reqs, connectCalls,
                   sinceClose, calls, rcalls, pmVars>>

\* The client receives the response of a resolved request().
ClientRequestDone(k) ==
    /\ reqs[k].pc # "posting"
    /\ reqs' = Remove(reqs, k)
    /\ UNCHANGED <<envVars, monitorVars, mainVars, isClosing, conns, connectCalls,
                   sinceClose, calls, rcalls, pmVars>>

\* The exchanges drawn where calls interleave freely: one of each branch of request().
FewExchanges ==
    {Reply(200, Body("object", "2.0", 1, "result", 0, NoText), NoText),
     Reply(200, Body("object", "2.0", 1, "none", 0, NoText), NoText),
     Reply(503, Body("string", "none", 0, "none", 0, Text(3)), NoText),
     Fault("ECONNRESET")}

\* Every exchange of the model.
AllExchanges ==
    {Reply(s, b, t) : s \in Statuses, b \in Bodies, t \in StatusTexts}
    \cup {Fault(f) : f \in FaultCodes}

\* The network answers a request, or fails it.
ReqSettle ==
    /\ \E k \in 1..Len(reqs) : \E x \in FewExchanges : RequestSettle(k, x)
    /\ UNCHANGED <<envVars, monitorVars, mainVars>>

InitTransport ==
    /\ lockFile = "absent"
    /\ procProbe = "ESRCH"
    /\ lockSeen = FALSE
    /\ isAlive = "undefined"
    /\ isChecking = FALSE
    /\ monitorTimer = 0
    /\ timers = {}
    /\ timersMade = 0
    /\ polls = <<>>
    /\ ticks = 0
    /\ downCalls = 0
    /\ aliveCalls = 0
    /\ lastCb = "none"
    /\ reads = 0
    /\ probes = 0
    /\ mode = "remote"
    /\ skipDaemon = TRUE
    /\ mainPc = "client"
    /\ isApiKeyValid = "undefined"
    /\ launches = 0
    /\ spawns = 0
    /\ proc = "running"
    /\ exits = <<>>
    /\ scanning = FALSE
    /\ isClosing = FALSE
    /\ conns = <<>>
    /\ reqs = <<>>
    /\ connectCalls = 0
    /\ sinceClose = "never"
    /\ calls = 0
    /\ rcalls = <<>>
    /\ configFile = <<>>
    /\ cache = EmptyCache
    /\ acts = <<>>

NextTransport ==
    \/ ClientConnect
    \/ \E id \in ReqIds : ClientRequest(id)
    \/ ClientClose
    \/ \E k \in 1..Len(conns) : ClientConnectDone(k)
    \/ \E k \in 1..Len(reqs) : ClientRequestDone(k)
    \/ ConnStep
    \/ ReqSettle

SpecTransport == InitTransport /\ [][NextTransport]_vars

(***************************************************************************)
(* connect() under a client that awaits each connect() before the next and *)
(* may call close() at any time, the clock read at every post.             *)
(***************************************************************************)
AwaitedConnect ==
    /\ conns = <<>>
    /\ ClientConnect

NextHandshake ==
    \/ AwaitedConnect
    \/ ClientClose
    \/ \E k \in 1..Len(conns) : ClientConnectDone(k)
    \/ ConnStepTimed

SpecHandshake == InitTransport /\ [][NextHandshake]_vars

(***************************************************************************)
(* The transport under a client that awaits each request() before the next *)
(* and may call close() at any time: every exchange of the model is drawn. *)
(***************************************************************************)
AwaitedRequest(id) ==
    /\ reqs = <<>>
    /\ ClientRequest(id)

ReqSettleAny ==
    /\ \E k \in 1..Len(reqs) : \E x \in AllExchanges : RequestSettle(k, x)
    /\ UNCHANGED <<envVars, monitorVars, mainVars>>

NextExchange ==
    \/ \E id \in ReqIds : AwaitedRequest(id)
    \/ ClientClose
    \/ \E k \in 1..Len(reqs) : ClientRequestDone(k)
    \/ ReqSettleAny

SpecExchange == InitTransport /\ [][NextExchange]_vars

(***************************************************************************)
(* RpcClient.call over the transport: each call is awaited before the next *)
(* and close() may be called at any time.                                  *)
(***************************************************************************)
\* The transport argument of call: an instance, or null / undefined.
TransportArgs == {"transport", "null"}

\* uuidv4(): the n-th identifier generated; no two of them are equal.
Uuid(n) == n

\* The test `if (!transport)` at the top of call.
NoTransportNever(t) == FALSE
NoTransport(t) == t = "null"

\* What call does with the response of transport.request: throws an Error made of
\* res.error.message when res.error is set, else returns res.result.
CallOutcomeWrapped(res) ==
    IF res.has = "error"
    THEN [kind |-> "throws", message |-> [res.message EXCEPT !.what = "RPC error"],
          value |-> "none"]
    ELSE [kind |-> "returns", message |-> Message("none", 0, NoText),
          value |-> IF res.has = "result" THEN "result" ELSE "undefined"]

CallOutcome(res) ==
    IF res.has = "error"
    THEN [kind |-> "throws", message |-> res.message, value |-> "none"]
    ELSE [kind |-> "returns", message |-> Message("none", 0, NoText),
          value |-> IF res.has = "result" THEN "result" ELSE "undefined"]

NoOutcome == [kind |-> "none", message |-> Message("none", 0, NoText), value |-> "none"]

\* call(transport, method, params) up to its await: without a transport it returns
\* undefined; else it builds the envelope with a fresh id and calls request().
CallBegin(t) ==
    /\ calls < MaxCalls
    /\ calls' = calls + 1
    /\ IF NoTransport(t)
       THEN /\ rcalls' = Append(rcalls,
                   [transport |-> t, id |-> 0, pc |-> "returned", res |-> NoResponse,
                    out |-> [NoOutcome EXCEPT !.kind = "returns",
                                              !.value = "undefined"]])
            /\ UNCHANGED <<isClosing, conns, reqs, connectCalls, sinceClose>>
       ELSE /\ rcalls' = Append(rcalls,
                   [transport |-> t, id |-> Uuid(calls + 1), pc |-> "awaiting",
                    res |-> NoResponse, out |-> NoOutcome])
            /\ RequestBegin(Uuid(calls + 1))

Call(t) ==
    /\ CallBegin(t)
    /\ UNCHANGED <<envVars, monitorVars, mainVars, pmVars>>

\* call after its await: the response of its request is res.
CallResume(k) ==
    /\ rcalls[k].pc = "awaiting"
    /\ \E j \in 1..Len(reqs) :
          /\ reqs[j].id = rcalls[k].id
          /\ reqs[j].pc = "resolved"
          /\ reqs' = Remove(reqs, j)
          /\ rcalls' = [rcalls EXCEPT ![k] =
                [@ EXCEPT !.pc  = IF CallOutcome(reqs[j].resp).kind = "throws"
                                  THEN "threw" ELSE "returned",
                          !.res = reqs[j].resp,
                          !.out = CallOutcome(reqs[j].resp)]]
    /\ UNCHANGED <<envVars, monitorVars, mainVars, isClosing, conns, connectCalls,
                   sinceClose, calls, pmVars>>

\* The caller receives the outcome of a settled call.
CallDone(k) ==
    /\ rcalls[k].pc \in {"returned", "threw"}
    /\ rcalls' = Remove(rcalls, k)
    /\ UNCHANGED <<envVars, monitorVars, mainVars, isClosing, conns, reqs,
                   connectCalls, sinceClose, calls, pmVars>>

AwaitedCall(t) ==
    /\ rcalls = <<>>
    /\ configFile = <<>>
    /\ cache = EmptyCache
    /\ acts = <<>>
    /\ Call(t)

NextCall ==
    \/ \E t \in TransportArgs : AwaitedCall(t)
    \/ ClientClose
    \/ \E k \in 1..Len(rcalls) : CallResume(k)
    \/ \E k \in 1..Len(rcalls) : CallDone(k)
    \/ ReqSettleAny

SpecCall == InitTransport /\ [][NextCall]_vars

(***************************************************************************)
(* ProjectManager.scan and ensureProject                                   *)
(***************************************************************************)
NoResult == [isError |-> FALSE, text |-> "none", id |-> 0]

\* An activation of scan(), ensureProject() or handleToolCall(): path is the
\* argument of ensureProject, name and pid those of handleToolCall (pid 0: the call
\* has no projectId), made the uuid drawn for a new project, cfgs the entries about
\* to be written, rpc the id of the call forwarded, scans the forced scans begun,
\* key what handleToolCall read from state.isApiKeyValid, res the response its
\* call settled with.
Act(kind, pc) ==
    [kind |-> kind, pc |-> pc, path |-> "none", name |-> "none", pid |-> 0,
     made |-> 0, cfgs |-> <<>>, rpc |-> 0, scans |-> 0, key |-> "none",
     res |-> NoResponse, result |-> NoResult]

\* uuidv4() for a new project: a value no project of this run carries.
NextUuid == Uuid(1 + MaxOf({acts[k].made : k \in 1..Len(acts)} \cup {0}))

\* scan(true) up to its first await, fs.promises.access.
ScanBegin ==
    /\ Len(acts) < MaxCalls
    /\ acts' = Append(acts, [Act("scan", "access") EXCEPT !.scans = 1])
    /\ UNCHANGED <<configFile, cache>>
    /\ UNCHANGED <<envVars, monitorVars, mainVars, transVars>>

\* access settles: the file is there, or scan() goes on to create it.
ScanAccess(k) ==
    /\ acts[k].pc = "access"
    /\ acts' = [acts EXCEPT ![k].pc = IF configFile = "absent" THEN "creating"
                                      ELSE "reading"]
    /\ UNCHANGED <<configFile, cache>>
    /\ UNCHANGED <<envVars, monitorVars, mainVars, transVars>>

\* writeFile(configFile, "[]") settles.
ScanCreate(k) ==
    /\ acts[k].pc = "creating"
    /\ configFile' = <<>>
    /\ acts' = [acts EXCEPT ![k].pc = "reading"]
    /\ UNCHANGED cache
    /\ UNCHANGED <<envVars, monitorVars, mainVars, transVars>>

\* ensureProject after its scan(true): c is the cache, f the file as existsSync
\* sees it, uuid the id drawn if a project has to be created.
EnsureAfterScan(a, c, f, uuid) ==
    IF c[NormalizedPath(a.path)] # 0
    THEN [a EXCEPT !.pc = "returned", !.result = [NoResult EXCEPT !.id =
                                                     c[NormalizedPath(a.path)]]]
    ELSE IF f # "absent" THEN [a EXCEPT !.made = uuid, !.pc = "rmwRead"]
    ELSE [a EXCEPT !.made = uuid, !.cfgs = <<Entry(a.path, uuid)>>,
                   !.pc = "writing"]

\* readFile of scan() settles: the entries are parsed, the cache is replaced if it
\* has changed, and the caller of scan(true) goes on.
ScanRead(k) ==
    /\ acts[k].kind \in {"scan", "ensure"}
    /\ acts[k].pc = "reading"
    /\ cache' = ScanCache(configFile, cache)
    /\ acts' = [acts EXCEPT ![k] =
                  IF @.kind = "scan" THEN [@ EXCEPT !.pc = "returned"]
                  ELSE EnsureAfterScan(@, ScanCache(configFile, cache), configFile,
                                       NextUuid)]
    /\ UNCHANGED configFile
    /\ UNCHANGED <<envVars, monitorVars, mainVars, transVars>>

\* ensureProject(p) up to its first await.
EnsureBegin(p) ==
    /\ Len(acts) < MaxCalls
    /\ acts' = Append(acts,
          IF cache[NormalizedPath(p)] # 0
          THEN [Act("ensure", "returned") EXCEPT
                   !.path = p, !.result = [NoResult EXCEPT !.id =
                                              cache[NormalizedPath(p)]]]
          ELSE [Act("ensure", "access") EXCEPT !.path = p, !.scans = 1])
    /\ UNCHANGED <<configFile, cache>>
    /\ UNCHANGED <<envVars, monitorVars, mainVars, transVars>>

\* readFile of the read-modify-write settles: the new entry is pushed onto what was
\* read (onto nothing when the read throws).
EnsureRead(k) ==
    /\ acts[k].pc = "rmwRead"
    /\ acts' = [acts EXCEPT ![k] =
                  [@ EXCEPT !.cfgs = Append(IF configFile = "absent" THEN <<>>
                                            ELSE configFile,
                                            Entry(acts[k].path, acts[k].made)),
                            !.pc = "writing"]]
    /\ UNCHANGED <<configFile, cache>>
    /\ UNCHANGED <<envVars, monitorVars, mainVars, transVars>>

\* writeFile of the read-modify-write reaches the disk.
EnsureWrite(k) ==
    /\ acts[k].pc = "writing"
    /\ configFile' = acts[k].cfgs
    /\ acts' = [acts EXCEPT ![k].pc = "written"]
    /\ UNCHANGED cache
    /\ UNCHANGED <<envVars, monitorVars, mainVars, transVars>>

\* ensureProject after writeFile: the cache gets the new project, which is returned.
EnsureReturn(k) ==
    /\ acts[k].pc = "written"
    /\ cache' = [cache EXCEPT ![NormalizedPath(acts[k].path)] = acts[k].made]
    /\ acts' = [acts EXCEPT ![k] =
                  [@ EXCEPT !.pc = "returned",
                            !.result = [NoResult EXCEPT !.id = acts[k].made]]]
    /\ UNCHANGED configFile
    /\ UNCHANGED <<envVars, monitorVars, mainVars, transVars>>

\* The server as main leaves it once it is constructed, with a transport and a
\* project manager; file is what the config file holds on disk.
InitServer(valid, pc, file) ==
    /\ lockFile = "absent"
    /\ procProbe = "ESRCH"
    /\ lockSeen = FALSE
    /\ isAlive = "undefined"
    /\ isChecking = FALSE
    /\ monitorTimer = 0
    /\ timers = {}
    /\ timersMade = 0
    /\ polls = <<>>
    /\ ticks = 0
    /\ downCalls = 0
    /\ aliveCalls = 0
    /\ lastCb = "none"
    /\ reads = 0
    /\ probes = 0
    /\ mode = "remote"
    /\ skipDaemon = TRUE
    /\ mainPc = pc
    /\ isApiKeyValid = valid
    /\ launches = 0
    /\ spawns = 0
    /\ proc = "running"
    /\ exits = <<>>
    /\ scanning = TRUE
    /\ isClosing = FALSE
    /\ conns = <<>>
    /\ reqs = <<>>
    /\ connectCalls = 0
    /\ sinceClose = "never"
    /\ calls = 0
    /\ rcalls = <<>>
    /\ configFile = file
    /\ cache = EmptyCache
    /\ acts = <<>>

\* What the config file holds when the server starts: nothing, no entry, or a
\* project written earlier.
StartFiles == {"absent", <<>>, <<Entry("/w/lib", ExternalId)>>}

(***************************************************************************)
(* The project manager under callers that scan and ensure projects at any  *)
(* time, concurrently.                                                     *)
(***************************************************************************)
InitProjects == \E f \in StartFiles : InitServer("true", "client", f)

NextProjects ==
    \/ ScanBegin
    \/ \E p \in ProjectPaths : EnsureBegin(p)
    \/ \E k \in 1..Len(acts) : ScanAccess(k)
    \/ \E k \in 1..Len(acts) : ScanCreate(k)
    \/ \E k \in 1..Len(acts) : ScanRead(k)
    \/ \E k \in 1..Len(acts) : EnsureRead(k)
    \/ \E k \in 1..Len(acts) : EnsureWrite(k)
    \/ \E k \in 1..Len(acts) : EnsureReturn(k)

SpecProjects == InitProjects /\ [][NextProjects]_vars

(***************************************************************************)
(* startMcpServer: handleToolCall                                          *)
(***************************************************************************)
ToolNames  == {"search_debug_traces", "setup_project"}
\* The projectId of a call: none (0), the project of the config file, an unknown one.
ProjectIds == {0, ExternalId, 5}

\* The first test of handleToolCall: state.isApiKeyValid === false.
KeyRejectedUnlessValid(valid) == valid # "true"
KeyRejected(valid) == valid = "false"

\* The tools that are called without a projectId.
NeedsProjectIdNever(name) == FALSE
NeedsProjectId(name) == name \notin {"setup_project", "get_project_list"}

ToolError(text) == [isError |-> TRUE, text |-> text, id |-> 0]

\* error.message.includes(code) for the error call() threw on response res: the
\* message of a transport error ends with the message of the fault, which names
\* the fault's code.
Includes(res, code) == res.message.what = "Transport Error" /\ res.data = code

\* The result handleToolCall makes of the settled call rc.
ToolResultRawMessage(rc) ==
    IF rc.out.kind = "throws" THEN ToolError("message")
    ELSE [isError |-> FALSE, id |-> 0,
          text |-> IF rc.out.value = "undefined" THEN "(empty result)" ELSE "result"]

ToolResult(rc) ==
    IF rc.out.kind = "throws"
    THEN ToolError(IF Includes(rc.res, "ECONNREFUSED") \/ Includes(rc.res, "ENOENT")
                   THEN "guidance" ELSE "message")
    ELSE [isError |-> FALSE, id |-> 0,
          text |-> IF rc.out.value = "undefined" THEN "(empty result)" ELSE "result"]

\* The activation once RpcClient.call has been called for it.
Forwarded(a) == [a EXCEPT !.pc = "awaiting", !.rpc = Uuid(calls + 1)]

\* handleToolCall(name, args) up to its first await.
ToolBegin(name, pid) ==
    /\ calls < MaxCalls
    /\ LET a == [Act("tool", "returned") EXCEPT !.name = name, !.pid = pid,
                                                !.key = isApiKeyValid]
       IN  IF KeyRejected(isApiKeyValid)
           THEN /\ acts' = Append(acts, [a EXCEPT !.result = ToolError("apiKey")])
                /\ UNCHANGED transVars
           ELSE IF pid # 0 /\ ~HasProjectId(cache, pid)
           THEN /\ acts' = Append(acts, [a EXCEPT !.pc = "access", !.scans = 1])
                /\ UNCHANGED transVars
           ELSE IF pid = 0 /\ NeedsProjectId(name)
           THEN /\ acts' = Append(acts, [a EXCEPT !.result = ToolError("missing")])
                /\ UNCHANGED transVars
           ELSE /\ acts' = Append(acts, Forwarded(a))
                /\ CallBegin("transport")
    /\ UNCHANGED <<configFile, cache>>
    /\ UNCHANGED <<envVars, monitorVars, mainVars>>

\* readFile of the scan(true) of handleToolCall settles: the cache is refreshed and
\* the projectId is looked up once more.
ToolScanRead(k) ==
    /\ acts[k].kind = "tool"
    /\ acts[k].pc = "reading"
    /\ cache' = ScanCache(configFile, cache)
    /\ IF HasProjectId(ScanCache(configFile, cache), acts[k].pid)
       THEN /\ acts' = [acts EXCEPT ![k] = Forwarded(@)]
            /\ CallBegin("transport")
       ELSE /\ acts' = [acts EXCEPT ![k] = [@ EXCEPT !.pc = "returned",
                                                     !.result = ToolError("notFound")]]
            /\ UNCHANGED transVars
    /\ UNCHANGED configFile
    /\ UNCHANGED <<envVars, monitorVars, mainVars>>

\* handleToolCall after await RpcClient.call: the try block or the catch block.
ToolResume(k) ==
    /\ acts[k].pc = "awaiting"
    /\ \E j \in 1..Len(rcalls) :
          /\ rcalls[j].id = acts[k].rpc
          /\ rcalls[j].pc \in {"returned", "threw"}
          /\ rcalls' = Remove(rcalls, j)
          /\ acts' = [acts EXCEPT ![k] = [@ EXCEPT !.pc = "returned",
                                                   !.res = rcalls[j].res,
                                                   !.result = ToolResult(rcalls[j])]]
    /\ UNCHANGED <<configFile, cache>>
    /\ UNCHANGED <<envVars, monitorVars, mainVars, isClosing, conns, reqs,
                   connectCalls, sinceClose, calls>>

\* The exchanges drawn for a forwarded call: a result, an error envelope of the
\* daemon, a body that is no envelope, and faults.
ToolExchanges ==
    {Reply(200, Body("object", "2.0", 1, "result", 0, NoText), NoText),
     Reply(200, Body("object", "2.0", 1, "error", METHOD_NOT_FOUND, NoText), NoText),
     Reply(200, Body("object", "2.0", 1, "none", 0, NoText), NoText),
     Reply(503, Body("string", "none", 0, "none", 0, Text(3)), NoText)}
    \cup {Fault(f) : f \in {"ECONNREFUSED", "ENOENT", "ECONNABORTED"}}

ToolReqSettle ==
    /\ \E k \in 1..Len(reqs) : \E x \in ToolExchanges : RequestSettle(k, x)
    /\ UNCHANGED <<envVars, monitorVars, mainVars, pmVars>>

(***************************************************************************)
(* The tool handler once the key is validated, or while its validation is  *)
(* pending and fails, the startup scan running at any time, under a        *)
(* client that awaits each tool call before the next.                      *)
(***************************************************************************)
InitTool ==
    \E f \in StartFiles :
       \/ InitServer("undefined", "validating", f)
       \/ InitServer("true", "connected", f)

\* The scan(true) of startScanning.
StartupScan ==
    /\ \A k \in 1..Len(acts) : acts[k].kind # "scan"
    /\ ScanBegin

AwaitedTool(name, pid) ==
    /\ \A k \in 1..Len(acts) : acts[k].kind # "tool"
    /\ ToolBegin(name, pid)

\* The client receives the result of a tool call.
ToolDone(k) ==
    /\ acts[k].kind = "tool"
    /\ acts[k].pc = "returned"
    /\ acts' = Remove(acts, k)
    /\ UNCHANGED <<configFile, cache>>
    /\ UNCHANGED <<envVars, monitorVars, mainVars, transVars>>

NextTool ==
    \/ ValidateFail
    \/ StartupScan
    \/ \E k \in 1..Len(acts) : ScanAccess(k)
    \/ \E k \in 1..Len(acts) : ScanCreate(k)
    \/ \E k \in 1..Len(acts) : ScanRead(k)
    \/ \E n \in ToolNames : \E pid \in ProjectIds : AwaitedTool(n, pid)
    \/ \E k \in 1..Len(acts) : ToolScanRead(k)
    \/ \E k \in 1..Len(rcalls) : CallResume(k)
    \/ \E k \in 1..Len(acts) : ToolResume(k)
    \/ \E k \in 1..Len(acts) : ToolDone(k)
    \/ ToolReqSettle

SpecTool == InitTool /\ [][NextTool]_vars

(***************************************************************************)
(* The monitor with main's callbacks under a client that calls start() and *)
(* stop() at any time.                                                     *)
(***************************************************************************)
MonitorStart ==
    /\ proc = "running"
    /\ calls < MaxCalls
    /\ calls' = calls + 1
    /\ UNCHANGED <<rcalls, pmVars>>
    /\ Start
    /\ UNCHANGED <<envVars, ticks, downCalls, aliveCalls, lastCb, probes,
                   mainVars, isClosing, conns, reqs, connectCalls, sinceClose>>

MonitorStop ==
    /\ proc = "running"
    /\ calls < MaxCalls
    /\ calls' = calls + 1
    /\ UNCHANGED <<rcalls, pmVars>>
    /\ Stop
    /\ UNCHANGED <<envVars, isAlive, isChecking, polls, ticks, downCalls, aliveCalls,
                   lastCb, reads, probes, mainVars, isClosing, conns, reqs,
                   connectCalls, sinceClose>>

InitMonitor ==
    /\ lockFile \in LockStates
    /\ procProbe \in ProbeStates
    /\ lockSeen = TRUE
    /\ isAlive = "undefined"
    /\ isChecking = FALSE
    /\ monitorTimer = 0
    /\ timers = {}
    /\ timersMade = 0
    /\ polls = <<>>
    /\ ticks = 0
    /\ downCalls = 0
    /\ aliveCalls = 0
    /\ lastCb = "none"
    /\ reads = 0
    /\ probes = 0
    /\ mode = "local"
    /\ skipDaemon = FALSE
    /\ mainPc = "client"
    /\ isApiKeyValid = "true"
    /\ launches = 0
    /\ spawns = 0
    /\ proc = "running"
    /\ exits = <<>>
    /\ scanning = FALSE
    /\ isClosing = FALSE
    /\ conns = <<>>
    /\ reqs = <<>>
    /\ connectCalls = 0
    /\ sinceClose = "never"
    /\ calls = 0
    /\ rcalls = <<>>
    /\ configFile = <<>>
    /\ cache = EmptyCache
    /\ acts = <<>>

NextMonitor ==
    \/ MonitorStart
    \/ MonitorStop
    \/ Tick
    \/ \E k \in 1..Len(polls) : ReadDone(k)
    \/ \E k \in 1..Len(polls) : Compare(k)
    \/ \E k \in 1..Len(polls) : CallbackDone(k)
    \/ ConnStep
    \/ \E v \in LockStates : SetLock(v)
    \/ \E v \in ProbeStates : SetProbe(v)

SpecMonitor == InitMonitor /\ [][NextMonitor]_vars

(***************************************************************************)
(* One started monitor with main's callbacks, polling a lock descriptor    *)
(* that may hold any of the contents of LockContents.                      *)
(***************************************************************************)
\* The state right after start(): the timer is set and the immediate check() is
\* suspended at its first await.
InitPoll ==
    /\ lockFile \in LockContents
    /\ procProbe \in ProbeStates
    /\ lockSeen = TRUE
    /\ isAlive = "undefined"
    /\ isChecking = TRUE
    /\ monitorTimer = 1
    /\ timers = {1}
    /\ timersMade = 1
    /\ polls = <<IF lockFile = "absent"
                 THEN [pc |-> "resolved", cur |-> NotFound(isAlive), raw |-> "absent"]
                 ELSE [pc |-> "reading", cur |-> "undefined", raw |-> "none"]>>
    /\ ticks = 0
    /\ downCalls = 0
    /\ aliveCalls = 0
    /\ lastCb = "none"
    /\ reads = IF lockFile = "absent" THEN 0 ELSE 1
    /\ probes = 0
    /\ mode = "local"
    /\ skipDaemon = FALSE
    /\ mainPc = "client"
    /\ isApiKeyValid = "true"
    /\ launches = 0
    /\ spawns = 0
    /\ proc = "running"
    /\ exits = <<>>
    /\ scanning = FALSE
    /\ isClosing = FALSE
    /\ conns = <<>>
    /\ reqs = <<>>
    /\ connectCalls = 0
    /\ sinceClose = "never"
    /\ calls = 0
    /\ rcalls = <<>>
    /\ configFile = <<>>
    /\ cache = EmptyCache
    /\ acts = <<>>

NextPoll ==
    \/ Tick
    \/ \E k \in 1..Len(polls) : ReadDone(k)
    \/ \E k \in 1..Len(polls) : Compare(k)
    \/ \E k \in 1..Len(polls) : CallbackDone(k)
    \/ ConnStep
    \/ \E v \in LockContents : SetLock(v)
    \/ \E v \in ProbeStates : SetProbe(v)

SpecPoll == InitPoll /\ [][NextPoll]_vars

\* The same, every await of a poll settling in the end: readFile answers, the event
\* loop resumes a poll whose await has settled, and each attempt of connect() ends
\* with the reply or with its 2000 ms timeout, each delay with its 500 ms timer.
SpecPollFair ==
    /\ SpecPoll
    /\ WF_vars(\E k \in 1..Len(polls) : ReadDone(k))
    /\ WF_vars(\E k \in 1..Len(polls) : Compare(k))
    /\ WF_vars(\E k \in 1..Len(polls) : CallbackDone(k))
    /\ WF_vars(ConnStep)

(***************************************************************************)
(* Properties                                                              *)
(***************************************************************************)
\* A callback of the monitor is invoked in this step.
CbInvoked == downCalls' # downCalls \/ aliveCalls' # aliveCalls

\* Poll k leaves the comparison in this step: it either enters a callback or ends.
CompareStep(k) ==
    /\ polls[k].pc = "resolved"
    /\ \/ Len(polls') < Len(polls)
       \/ /\ Len(polls') = Len(polls)
          /\ polls'[k].pc \in {"inDown", "downRejects", "inAlive"}

\* C1: a callback is invoked only by a poll whose resolved observation differs from
\* the stored state, exactly one callback per such poll; onDaemonDown and
\* onDaemonAlive strictly alternate; a poll that resolves to the stored state invokes
\* nothing; an empty-file observation made while the state is Alive or Dead invokes
\* nothing and leaves the state as it was.
C1_EdgeTriggered ==
    [][ /\ CbInvoked =>
              /\ \E k \in 1..Len(polls) :
                    /\ CompareStep(k)
                    /\ polls[k].cur # isAlive
                    /\ isAlive' = polls[k].cur
                    /\ aliveCalls' # aliveCalls <=> polls[k].cur = "true"
              /\ downCalls' + aliveCalls' = downCalls + aliveCalls + 1
              /\ lastCb' # lastCb
              /\ lastCb' = IF aliveCalls' # aliveCalls THEN "alive" ELSE "down"
        /\ \A k \in 1..Len(polls) :
              CompareStep(k) /\ polls[k].cur = isAlive =>
                 ~CbInvoked /\ isAlive' = isAlive
        /\ \A k \in 1..Len(polls) :
              CompareStep(k) /\ polls[k].raw = "empty" /\ isAlive # "undefined" =>
                 ~CbInvoked /\ isAlive' = isAlive
      ]_vars

\* C1 witness: both callbacks have been invoked, and a poll that read an empty file
\* while the state was known is about to be compared.
C1_Witness ==
    /\ downCalls >= 1
    /\ aliveCalls >= 1
    /\ \E k \in 1..Len(polls) :
          /\ polls[k].pc = "resolved"
          /\ polls[k].raw = "empty"
          /\ polls[k].cur = isAlive

\* C2 (as claimed): a poll that finds the lock descriptor present but empty leaves
\* the stored state as it was and invokes no callback, whatever the previous state,
\* Unknown included.
C2_EmptyRetainsState ==
    [][ \A k \in 1..Len(polls) :
           CompareStep(k) /\ polls[k].raw = "empty" =>
              ~CbInvoked /\ isAlive' = isAlive
      ]_vars

\* A new poll begins in this step.
PollBegins == Len(polls') > Len(polls)
\* The timer fires, or start() makes its immediate check, in this step.
CheckCalled == ticks' # ticks \/ timersMade' # timersMade

\* C3: at most one poll is in flight; a timer tick (or the immediate check of
\* start()) arriving while a poll is outstanding reads no file, probes no process,
\* invokes no callback and changes no state; and a poll begins only in a step in
\* which check() is called, so a dropped tick is not replayed later.
C3_SinglePollInFlight ==
    /\ [](Len(polls) <= 1)
    /\ [][ /\ CheckCalled /\ polls # <<>> =>
                UNCHANGED <<envVars, isAlive, isChecking, polls, downCalls, aliveCalls,
                            lastCb, reads, probes, launches, spawns, isClosing, conns,
                            reqs, connectCalls, sinceClose>>
           /\ PollBegins => CheckCalled /\ polls = <<>>
         ]_vars

\* C3 witness: ticks have fired and start() has been called again while the first
\* poll is still awaiting onDaemonAlive, and the read of that poll is the only one made.
C3_Witness ==
    /\ ticks >= 2
    /\ timersMade = 2
    /\ Len(polls) = 1
    /\ polls[1].pc = "inAlive"
    /\ aliveCalls = 1
    /\ downCalls = 0
    /\ reads = 1

\* C4: in local mode with self-heal enabled, a poll that changes the stored state to
\* Dead invokes startDaemon exactly once (one spawn) and no connect(); a poll that
\* changes it to Alive makes exactly one transport.connect() call and no launch; a
\* step that does not change the stored state launches nothing and connects nothing.
C4_OneActionPerEdge ==
    [][ mode = "local" /\ ~skipDaemon =>
          /\ isAlive' # isAlive /\ isAlive' = "false" =>
                /\ launches' = launches + 1
                /\ spawns' = spawns + 1
                /\ connectCalls' = connectCalls
          /\ isAlive' # isAlive /\ isAlive' = "true" =>
                /\ connectCalls' = connectCalls + 1
                /\ launches' = launches
                /\ spawns' = spawns
          /\ isAlive' = isAlive =>
                /\ launches' = launches
                /\ spawns' = spawns
                /\ connectCalls' = connectCalls
      ]_vars

\* C4 witness: local self-healing mode, after a launch and a verification connect.
C4_Witness ==
    /\ mode = "local"
    /\ ~skipDaemon
    /\ launches >= 1
    /\ connectCalls >= 1
    /\ ticks >= 1

AllFailed(a) == \A j \in 1..Len(a) : a[j] # "ok"

\* C5: connect() makes its attempts in order and stops at the first success: a
\* returned connect() made k-1 failed attempts and then one successful one (k in
\* 1..3); no attempt follows a success; there are never more than 3 attempts; and a
\* connect() throws exactly when 3 attempts failed, the error of the third.
C5_ConnectAttempts ==
    \A k \in 1..Len(conns) :
       LET c == conns[k]
           n == Len(c.attempts)
       IN  /\ n <= 3
           /\ AllFailed(SubSeq(c.attempts, 1, n - 1))
           /\ c.pc = "returned" <=> (n >= 1 /\ c.attempts[n] = "ok")
           /\ c.pc = "threw" <=> (n = 3 /\ AllFailed(c.attempts))
           /\ c.pc = "threw" => c.thrown = c.attempts[3]
           /\ c.pc = "posting" => n = c.i
           /\ c.pc = "delay" => n = c.i + 1

\* C5 witness: a connect() that threw after three failures, the third unlike the
\* first two.
C5_Witness ==
    \E k \in 1..Len(conns) :
       /\ conns[k].pc = "threw"
       /\ conns[k].attempts[1] = conns[k].attempts[2]
       /\ conns[k].attempts[3] # conns[k].attempts[1]

\* The response request() gives without I/O for request k.
RefusedAsClosing(r) ==
    /\ r.pc = "resolved"
    /\ ~r.net
    /\ r.exch = NoExch
    /\ r.resp.jsonrpc = "2.0"
    /\ r.resp.has = "error"
    /\ r.resp.code = -32603
    /\ r.resp.id = r.id

RequestPosted ==
    /\ Len(reqs') > Len(reqs)
    /\ reqs'[Len(reqs')].pc = "posting"
\* A connect() issues a handshake call in this step.
PingPosted ==
    \/ Len(conns') > Len(conns)
    \/ /\ Len(conns') = Len(conns)
       /\ \E k \in 1..Len(conns) : conns'[k].i > conns[k].i

C8_AlwaysAResponse ==
    \A k \in 1..Len(reqs) :
       reqs[k].pc # "posting" =>
          /\ reqs[k].pc = "resolved"
          /\ reqs[k].resp.jsonrpc = "2.0"
          /\ reqs[k].resp.has \in {"result", "error"}

\* C9: when the exchange fails with a connection-level fault, request() resolves to
\* a response with the request's id, error code TRANSPORT_ERROR (-32099) and
\* error.data.code equal to the fault's code.
C9_TransportFault ==
    \A k \in 1..Len(reqs) :
       LET r == reqs[k]
       IN  r.exch.kind = "fault" /\ r.exch.fault \in
              {"ECONNREFUSED", "ENOENT", "ECONNRESET", "ETIMEDOUT", "ENOTFOUND", "EPIPE"} =>
              /\ r.pc = "resolved"
              /\ r.resp.id = r.id
              /\ r.resp.has = "error"
              /\ r.resp.code = -32099
              /\ r.resp.data = r.exch.fault

\* C9 witness: a request whose exchange broke with EPIPE after close() was called
\* while it was in flight.
C9_Witness ==
    \E k \in 1..Len(reqs) :
       /\ reqs[k].exch.kind = "fault"
       /\ reqs[k].exch.fault = "EPIPE"
       /\ reqs[k].afterClose = "never"
       /\ isClosing

\* The diagnostic text of an exchange whose body is not an RpcResponse: the body when
\* it is a string, else the status text, else "Unknown Server Error".
Diagnostic(x) ==
    CASE x.body.type = "string" -> x.body.text
      [] x.statusText # <<>>    -> x.statusText
      [] OTHER                  -> UnknownServerError

IsPrefix(p, t) == Len(p) <= Len(t) /\ \A i \in 1..Len(p) : p[i] = t[i]

ValidEnvelope(b, id) ==
    /\ b.type = "object"
    /\ b.jsonrpc = "2.0"
    /\ b.id = id
    /\ b.has \in {"result", "error"}

\* C11 (as claimed): every reply whose body is not a valid response envelope (an
\* object tagged "2.0" without result and error, a body whose id is not the
\* request's, a non-object body) resolves to an error response with code
\* INVALID_REQUEST or INTERNAL_ERROR and is never returned as a good response.
C11_InvalidEnvelopeSurfaced ==
    \A k \in 1..Len(reqs) :
       LET r == reqs[k]
       IN  r.exch.kind = "reply" /\ ~ValidEnvelope(r.exch.body, r.id) =>
              /\ r.resp.has = "error"
              /\ r.resp.code \in {-32600, -32603}

\* C12: when the exchange returns a well-formed response envelope, request()
\* resolves to that envelope unchanged (same id, same result or error, nothing
\* added), whatever the HTTP status of the exchange.
C12_EnvelopeVerbatim ==
    \A k \in 1..Len(reqs) :
       LET r == reqs[k]
           b == r.exch.body
       IN  r.exch.kind = "reply" /\ ValidEnvelope(b, r.id) =>
              /\ r.pc = "resolved"
              /\ r.resp.jsonrpc = "2.0"
              /\ r.resp.id = b.id
              /\ r.resp.has = b.has
              /\ r.resp.code = b.code
              /\ r.resp.message.what = (IF b.has = "error" THEN "daemon" ELSE "none")
              /\ r.resp.message.status = 0
              /\ r.resp.message.diag = <<>>
              /\ r.resp.data = "none"

\* C12 witness: a reply with status 500 whose body is a well-formed envelope that
\* carries the daemon's error, returned as it is.
C12_Witness ==
    \E k \in 1..Len(reqs) :
       /\ reqs[k].exch.kind = "reply"
       /\ reqs[k].exch.status = 500
       /\ ValidEnvelope(reqs[k].exch.body, reqs[k].id)
       /\ reqs[k].exch.body.has = "error"
       /\ reqs[k].resp.code = -32601

\* C13 (as claimed): when the callback a poll awaits fails, the failure stays inside
\* the poll: the process keeps running (no unhandled error), the state the poll
\* stored stays stored, and the in-flight flag is cleared so that later ticks poll.
C13_CallbackFailureContained ==
    [][ \A k \in 1..Len(polls) :
           polls[k].pc = "downRejects" /\ Len(polls') < Len(polls) =>
              /\ proc' = "running"
              /\ isAlive' = "false"
              /\ isChecking' = FALSE
      ]_vars

\* The readFile of poll k settles in this step and checkDaemonAlive returns.
ReadStep(k) ==
    /\ polls[k].pc = "reading"
    /\ Len(polls') = Len(polls)
    /\ polls'[k].pc # "reading"

\* C14: an I/O error of the read (the file is gone when readFile runs, after the
\* existence test found it) makes the poll resolve Dead without a probe and without
\* ending the process; the poll goes on to its comparison like any other, and the
\* completion of a poll leaves the in-flight flag cleared, so later polls run.
C14_ReadErrorIsDead ==
    /\ [][ \A k \in 1..Len(polls) :
              ReadStep(k) /\ lockFile = "absent" =>
                 /\ polls'[k].pc = "resolved"
                 /\ polls'[k].cur = "false"
                 /\ polls'[k].raw = "ENOENT"
                 /\ probes' = probes
                 /\ proc' = "running"
         ]_vars
    /\ [](\A k \in 1..Len(polls) : polls[k].raw = "ENOENT" => polls[k].cur = "false")
    /\ [][Len(polls') < Len(polls) => ~isChecking']_vars
    /\ [][ \A k \in 1..Len(polls) :
              polls[k].raw = "ENOENT" /\ polls[k].pc = "resolved" => proc' = "running"
         ]_vars

\* C14 witness: the stored state is Alive, and a later poll whose read failed has
\* resolved Dead and is in onDaemonDown.
C14_Witness ==
    /\ aliveCalls >= 1
    /\ isAlive = "false"
    /\ \E k \in 1..Len(polls) : polls[k].raw = "ENOENT" /\ polls[k].pc = "inDown"

\* C16: a poll that reads a numeric PID probes the process once and resolves Dead
\* exactly when the probe reports ESRCH; it resolves Alive when the probe succeeds
\* and when it fails with any other error (EPERM).
C16_ProbeDecides ==
    [][ \A k \in 1..Len(polls) :
           ReadStep(k) /\ lockFile = "pid" =>
              /\ polls'[k].pc = "resolved"
              /\ polls'[k].cur \in {"true", "false"}
              /\ polls'[k].cur = "false" <=> procProbe = "ESRCH"
              /\ polls'[k].cur = "true" <=> procProbe \in {"ok", "EPERM"}
              /\ probes' = probes + 1
      ]_vars

\* C16 witness: a poll has read a PID whose probe failed with EPERM and has resolved
\* Alive, after an earlier poll found the daemon dead.
C16_Witness ==
    /\ procProbe = "EPERM"
    /\ lockFile = "pid"
    /\ downCalls >= 1
    /\ \E k \in 1..Len(polls) :
          polls[k].pc = "resolved" /\ polls[k].raw = "pid" /\ polls[k].cur = "true"

\* C17 (as claimed): a poll that reads a content that is not a textual integer (the
\* empty file apart, which keeps the stored state) resolves Dead and probes no process.
C17_NonIntegerIsDead ==
    [][ \A k \in 1..Len(polls) :
           ReadStep(k) /\ lockFile \in {"nan", "pidJunk"} =>
              /\ polls'[k].cur = "false"
              /\ probes' = probes
      ]_vars

\* C15: a poll that finds the lock descriptor absent resolves Dead without reading
\* it; when such a poll is compared, onDaemonDown is invoked once (and onDaemonAlive
\* is not) if the stored state is Unknown or Alive, and nothing is invoked if it is
\* already Dead; and as long as the descriptor has never existed, onDaemonAlive has
\* not been invoked and onDaemonDown has been invoked exactly once from the first
\* comparison on.
C15_AbsentIsDeadOnce ==
    /\ [][ PollBegins /\ lockFile = "absent" =>
              /\ polls'[Len(polls')].pc = "resolved"
              /\ polls'[Len(polls')].cur = "false"
              /\ reads' = reads
         ]_vars
    /\ [][ \A k \in 1..Len(polls) :
              CompareStep(k) /\ polls[k].raw = "absent" =>
                 IF isAlive # "false"
                 THEN /\ downCalls' = downCalls + 1
                      /\ aliveCalls' = aliveCalls
                      /\ isAlive' = "false"
                 ELSE ~CbInvoked /\ isAlive' = "false"
         ]_vars
    /\ [](~lockSeen =>
             /\ aliveCalls = 0
             /\ downCalls <= 1
             /\ isAlive \in {"undefined", "false"}
             /\ downCalls = 1 <=> isAlive = "false")

\* C15 witness: the descriptor has never existed, the immediate poll and two timer
\* polls have completed, and onDaemonDown has been invoked once.
C15_Witness ==
    /\ ~lockSeen
    /\ ticks >= 2
    /\ polls = <<>>
    /\ isAlive = "false"
    /\ downCalls = 1
    /\ launches = 1
    /\ aliveCalls = 0

\* stop() is called in this step (and start() is not).
StopCalled == calls' # calls /\ timersMade' = timersMade

\* C18: while the monitor is stopped no interval timer is set and a poll begins only
\* in a step in which start() is called; a stop() call leaves a poll in flight, the
\* in-flight flag and the stored state as they are; and whenever a poll completes,
\* stopped or not, the in-flight flag is cleared.
C18_StopPreventsNewPolls ==
    /\ [](timers = IF monitorTimer = 0 THEN {} ELSE {monitorTimer})
    /\ [][monitorTimer = 0 /\ PollBegins => timersMade' # timersMade]_vars
    /\ [][monitorTimer = 0 /\ ticks' # ticks => FALSE]_vars
    /\ [][StopCalled => UNCHANGED <<polls, isChecking, isAlive, downCalls, aliveCalls,
                                    reads, probes, launches, conns>>]_vars
    /\ [][Len(polls') < Len(polls) => ~isChecking']_vars

\* C18 witness: stop() was called while the immediate poll of start() was still
\* reading the lock descriptor.
C18_Witness ==
    /\ monitorTimer = 0
    /\ timersMade = 1
    /\ calls = 2
    /\ ticks = 0
    /\ isChecking
    /\ Len(polls) = 1
    /\ polls[1].pc = "reading"

\* C19 (as claimed): once handleExit has been invoked, no poll begins, no monitor is
\* created or started, startDaemon is not invoked and no connect() is initiated,
\* whatever the background initialisation and a poll in flight are doing.
C19_QuietAfterShutdown ==
    [][ exits # <<>> =>
          /\ ~PollBegins
          /\ timersMade' = timersMade
          /\ mainPc' = "monitoring" => mainPc = "monitoring"
          /\ launches' = launches
          /\ connectCalls' = connectCalls
      ]_vars

\* The steps st of one handleExit are in the order of the handler: each step is
\* preceded by the step the handler takes before it.
InOrder(st) ==
    \A i \in 1..Len(st) :
       CASE st[i] = "monitor.stop"     -> i = 1
         [] st[i] = "stopScanning"     -> i = 1 \/ (i = 2 /\ st[1] = "monitor.stop")
         [] st[i] = "posthog.shutdown" -> i > 1 /\ st[i - 1] = "stopScanning"
         [] st[i] \in {"flushed", "flushFailed", "noClient"}
                                       -> i > 1 /\ st[i - 1] = "posthog.shutdown"
         [] st[i] = "process.exit"     -> i > 1 /\ st[i - 1] \in {"flushed", "flushFailed",
                                                                  "noClient"}
         [] OTHER                      -> FALSE

\* C20: handleExit stops the monitor (when main has created one), stops the project
\* scan, calls posthog.shutdown() and exits, in this order; the call of handleExit
\* leaves the monitor and the scan stopped and the process running, and the process
\* exits only in a step that follows the end of the flush (done, failed, or nothing to
\* flush) of the same handleExit.
C20_ShutdownOrder ==
    /\ [](\A k \in 1..Len(exits) : InOrder(exits[k].steps))
    /\ [](proc = "exited" <=>
             \E k \in 1..Len(exits) :
                exits[k].steps[Len(exits[k].steps)] = "process.exit")
    /\ [][ Len(exits') > Len(exits) =>
              /\ proc' = "running"
              /\ ~scanning'
              /\ exits'[Len(exits')].steps[Len(exits'[Len(exits')].steps)]
                    = "posthog.shutdown"
              /\ mainPc = "monitoring" =>
                    /\ monitorTimer' = 0
                    /\ timers' = {}
                    /\ exits'[Len(exits')].steps[1] = "monitor.stop"
         ]_vars

\* C20 witness: the process has exited after a handleExit that stopped a monitor,
\* stopped the scan and saw the flush fail.
C20_Witness ==
    /\ proc = "exited"
    /\ ~scanning
    /\ timers = {}
    /\ \E k \in 1..Len(exits) :
          exits[k].steps = <<"monitor.stop", "stopScanning", "posthog.shutdown",
                             "flushFailed", "process.exit">>

\* C21 (as claimed): in local mode with self-heal enabled the monitor is first
\* started only after a connect() has been made and has settled, and startDaemon is
\* invoked only before the monitor is started, after that connect() failed.
C21_ConnectBeforeMonitoring ==
    [][ mode = "local" /\ ~skipDaemon =>
          /\ timersMade = 0 /\ timersMade' # 0 =>
                /\ connectCalls >= 1
                /\ \A j \in 1..Len(conns) : ConnSettled(conns[j])
          /\ launches' # launches => timersMade = 0 /\ connectCalls >= 1
      ]_vars

\* C22: in remote mode, and in any mode under SKIP_DAEMON, no monitor is ever created
\* or started and no poll is made, startDaemon is never invoked and nothing is
\* spawned; connect() is called at most once, by the background initialisation once
\* the API key is validated, and never again; and a connect() that throws leaves the
\* process running and the key valid.
C22_NoSupervision ==
    mode = "remote" \/ skipDaemon =>
       /\ mainPc # "monitoring"
       /\ timersMade = 0 /\ timers = {} /\ monitorTimer = 0
       /\ polls = <<>> /\ ticks = 0 /\ isAlive = "undefined"
       /\ launches = 0 /\ spawns = 0
       /\ connectCalls <= 1
       /\ connectCalls = 1 <=> mainPc \in {"connecting", "connected"}
       /\ isApiKeyValid = "true" <=> connectCalls = 1
       /\ \A j \in 1..Len(conns) : conns[j].owner = "main"
       /\ Len(conns) = (IF mainPc = "connecting" THEN 1 ELSE 0)
       /\ proc # "crashed"

\* C22 witness: local mode under SKIP_DAEMON; the one connect() has thrown after its
\* three attempts and its rejection is about to be logged.
C22_Witness ==
    /\ mode = "local"
    /\ skipDaemon
    /\ mainPc = "connecting"
    /\ connectCalls = 1
    /\ \E j \in 1..Len(conns) : conns[j].owner = "main" /\ conns[j].pc = "threw"

\* C23 (as claimed): a spawn failure is never fatal: it never makes the onDaemonDown
\* that requested the launch reject into its poll, and it never ends the process.
C23_LaunchFaultNotFatal ==
    /\ \A k \in 1..Len(polls) : polls[k].pc # "downRejects"
    /\ proc # "crashed"

\* C24: startDaemon is invoked only by a poll that changes the stored state from
\* Unknown or Alive to Dead; a poll that resolves Dead while the stored state is Dead
\* leaves it Dead and launches nothing; so between two launches there is a poll that
\* resolved Alive and invoked onDaemonAlive, and the launches never outnumber those
\* polls by more than one.
C24_NoRelaunchWhileDead ==
    /\ [][ launches' # launches =>
              /\ launches' = launches + 1
              /\ isAlive # "false"
              /\ isAlive' = "false"
              /\ lastCb # "down"
              /\ lastCb' = "down"
         ]_vars
    /\ [][ \A k \in 1..Len(polls) :
              CompareStep(k) /\ polls[k].cur = "false" /\ isAlive = "false" =>
                 /\ isAlive' = "false"
                 /\ launches' = launches
                 /\ downCalls' = downCalls
         ]_vars
    /\ [][ aliveCalls' # aliveCalls =>
              \E k \in 1..Len(polls) : CompareStep(k) /\ polls[k].cur = "true"
         ]_vars
    /\ [](launches <= aliveCalls + 1)

\* C24 witness: after one launch the lock descriptor names a process that does not
\* exist; two timer polls have read it and resolved Dead, and there has been no
\* second launch.
C24_Witness ==
    /\ launches = 1
    /\ aliveCalls = 0
    /\ isAlive = "false"
    /\ lockFile = "pid"
    /\ procProbe = "ESRCH"
    /\ probes >= 2
    /\ ticks >= 2
    /\ polls = <<>>

\* Attempt i of connect() k fails in this step and is not the last one.
AttemptFails(k) ==
    /\ Len(conns') = Len(conns)
    /\ conns[k].pc = "posting"
    /\ conns[k].i < 2
    /\ Len(conns'[k].attempts) = Len(conns[k].attempts) + 1
    /\ conns'[k].attempts[Len(conns'[k].attempts)] # "ok"

\* The next attempt of connect() k is posted in this step.
AttemptStarts(k) ==
    /\ Len(conns') = Len(conns)
    /\ conns'[k].i = conns[k].i + 1
    /\ conns'[k].pc = "posting"

\* C25 (as claimed): no attempt of a connect() is started in the step in which the
\* previous one failed: the 500 ms delay lies between any two consecutive attempts,
\* also when close() is called while the connect() is in progress.
C25_AlwaysDelayed ==
    [][ \A k \in 1..Len(conns) :
           /\ AttemptFails(k) => conns'[k].pc = "delay" /\ conns'[k].i = conns[k].i
           /\ AttemptStarts(k) => conns[k].pc = "delay"
      ]_vars

\* C25 (amended): when an attempt other than the third fails while the closing flag
\* is not set, connect() waits the 500 ms delay before the next attempt; when it
\* fails while the flag is set (close() was called during the connect()), the next
\* attempt is posted at once, without the delay; an attempt is started in no other way.
C25_DelayedUnlessClosing ==
    [][ \A k \in 1..Len(conns) :
           /\ AttemptFails(k) /\ ~isClosing =>
                 conns'[k].pc = "delay" /\ conns'[k].i = conns[k].i
           /\ AttemptFails(k) /\ isClosing =>
                 conns'[k].pc = "posting" /\ conns'[k].i = conns[k].i + 1
           /\ AttemptStarts(k) =>
                 \/ conns[k].pc = "delay"
                 \/ AttemptFails(k) /\ isClosing
      ]_vars

\* C25 witness: close() was called during a connect() whose first attempt has failed,
\* and its second attempt is posted while the flag is set.
C25_Witness ==
    /\ isClosing
    /\ sinceClose = "closed"
    /\ \E k \in 1..Len(conns) :
          /\ conns[k].pc = "posting"
          /\ conns[k].i = 1
          /\ conns[k].attempts = <<"ECONNREFUSED">>

\* A call is made in this step; its activation is the last of rcalls'.
CallMade == Len(rcalls') > Len(rcalls)
NewCall == rcalls'[Len(rcalls')]

\* C26: a call made with a transport invokes transport.request once, with the
\* envelope it built, and no request is begun at any other moment; when the response
\* carries an error the call throws an error whose message is the response's
\* error.message, unchanged, and when it carries none the call returns the
\* response's result (undefined when there is none) and does not throw.
C26_CallOutcome ==
    /\ [][ /\ CallMade /\ NewCall.transport # "null" =>
                /\ Len(reqs') = Len(reqs) + 1
                /\ reqs'[Len(reqs')].id = NewCall.id
                /\ NewCall.pc = "awaiting"
           /\ Len(reqs') > Len(reqs) => CallMade
         ]_vars
    /\ [](\A k \in 1..Len(rcalls) :
            LET c == rcalls[k]
            IN  c.transport # "null" /\ c.pc # "awaiting" =>
                   /\ c.res.jsonrpc = "2.0"
                   /\ c.res.has = "error" =>
                         /\ c.pc = "threw"
                         /\ c.out.kind = "throws"
                         /\ c.out.message = c.res.message
                   /\ c.res.has # "error" =>
                         /\ c.pc = "returned"
                         /\ c.out.kind = "returns"
                         /\ c.out.value = (IF c.res.has = "result" THEN "result"
                                           ELSE "undefined"))

\* C26 witness: a call has thrown the error of a well-formed error envelope of the
\* daemon, and another has returned a result.
C26_Witness ==
    /\ calls >= 2
    /\ \E k \in 1..Len(rcalls) :
          /\ rcalls[k].pc = "threw"
          /\ rcalls[k].res.code = -32601
          /\ rcalls[k].out.message.what = "daemon"

\* C27: a call made without a transport (null or undefined) returns undefined at
\* once: it does not throw, builds no envelope and begins no request, and leaves the
\* transport as it is.
C27_NoTransportNoCall ==
    /\ [][ CallMade /\ NewCall.transport = "null" =>
              /\ NewCall.pc = "returned"
              /\ NewCall.out.kind = "returns"
              /\ NewCall.out.value = "undefined"
              /\ NewCall.id = 0
              /\ UNCHANGED <<reqs, conns, isClosing, connectCalls, sinceClose>>
         ]_vars
    /\ [](\A k \in 1..Len(rcalls) :
            rcalls[k].transport = "null" =>
               rcalls[k].pc = "returned" /\ rcalls[k].out.value = "undefined")

\* C27 witness: after a close(), a call without a transport has returned undefined
\* and no request exists.
C27_Witness ==
    /\ isClosing
    /\ reqs = <<>>
    /\ \E k \in 1..Len(rcalls) :
          /\ rcalls[k].transport = "null"
          /\ rcalls[k].pc = "returned"
          /\ rcalls[k].out.kind = "returns"

\* C28 (as claimed): no two envelopes carry the same id: the ids of the handshake
\* envelopes posted by one connect() are pairwise different, and so are the ids of
\* the envelopes built by RpcClient.call.
C28_IdsNeverReused ==
    /\ \A k \in 1..Len(conns) :
          \A a, b \in 1..Len(conns[k].ids) :
             a # b => conns[k].ids[a] # conns[k].ids[b]
    /\ \A k, j \in 1..Len(rcalls) :
          k # j /\ rcalls[k].transport # "null" /\ rcalls[j].transport # "null"
             => rcalls[k].id # rcalls[j].id

\* C29 (as claimed): once the process has exited through a shutdown path,
\* transport.close() has been called and the transport is closing.
C29_ClosedBeforeExit ==
    proc = "exited" => sinceClose # "never" /\ isClosing

\* C30: the stored liveness state changes only in the comparison of a poll, to that
\* poll's observation: start() and stop(), the timers and the completion of a
\* callback leave it as it is. After a stop() and a start() the state is the one
\* stored before, and a poll whose observation equals it invokes no callback.
C30_SingleWriter ==
    [][ /\ isAlive' # isAlive =>
              \E k \in 1..Len(polls) : CompareStep(k) /\ isAlive' = polls[k].cur
        /\ timersMade' # timersMade \/ monitorTimer' # monitorTimer \/ timers' # timers
              => isAlive' = isAlive
        /\ \A k \in 1..Len(polls) :
              polls[k].pc \in {"inDown", "inAlive"} /\ Len(polls') < Len(polls)
                 => isAlive' = isAlive
        /\ \A k \in 1..Len(polls) :
              CompareStep(k) /\ polls[k].cur = isAlive /\ timersMade >= 2 =>
                 ~CbInvoked /\ isAlive' = isAlive
      ]_vars

\* C30 witness: the monitor was started, stopped and started again; the poll of each
\* start() has run to its end, the first stored Alive and invoked onDaemonAlive, the
\* second observed Alive again and invoked nothing.
C30_Witness ==
    /\ timersMade = 2
    /\ calls = 3
    /\ monitorTimer = 2
    /\ ticks = 0
    /\ polls = <<>>
    /\ isAlive = "true"
    /\ aliveCalls = 1
    /\ downCalls = 0
    /\ probes = 2

\* C31 (as claimed): while the monitor is stopped after having been started, no
\* callback is invoked: a poll that was in flight when stop() was called ends
\* without calling onDaemonDown or onDaemonAlive.
C31_NoCallbackAfterStop ==
    [][monitorTimer = 0 /\ timersMade >= 1 => ~CbInvoked]_vars

\* C32: the in-flight flag set by a poll is cleared in the end, whatever the poll
\* observed and whether its callback resolved or rejected: with main's callbacks no
\* poll keeps the flag for ever, and a poll that ends clears it in the same step.
C32_FlagCleared ==
    /\ isChecking ~> ~isChecking
    /\ [][Len(polls') < Len(polls) => ~isChecking']_vars
    /\ [](isChecking <=> polls # <<>>)

\* C32 witness: both callbacks have run to their end, the connect() of onDaemonAlive
\* included, ticks have fired, and the flag is clear again.
C32_Witness ==
    /\ ~isChecking
    /\ polls = <<>>
    /\ aliveCalls >= 1
    /\ downCalls >= 1
    /\ conns = <<>>
    /\ connectCalls >= 1
    /\ ticks >= 2
    /\ proc = "running"

\* C33: at most one interval timer is set at any time, the one whose handle the
\* monitor holds; none is set when the monitor holds no handle, which is the case
\* after stop(); a start() on a started monitor replaces the timer.
C33_OneTimer ==
    /\ Cardinality(timers) <= 1
    /\ monitorTimer = 0 => timers = {}
    /\ monitorTimer # 0 => timers = {monitorTimer} /\ monitorTimer = timersMade

\* C33 witness: start() was called twice in a row and only the second timer is set.
C33_Witness ==
    /\ calls = 2
    /\ timersMade = 2
    /\ timers = {2}
    /\ ticks >= 1

\* C34: until credential validation has succeeded there is no monitor, no timer, no
\* poll, no daemon launch and no connect(); a failed validation stores false in
\* state.isApiKeyValid and ends the background initialisation, so none of them
\* happens in that run.
C34_NothingBeforeValidation ==
    /\ isApiKeyValid # "true" =>
          /\ timersMade = 0
          /\ timers = {}
          /\ polls = <<>>
          /\ ~isChecking
          /\ isAlive = "undefined"
          /\ launches = 0
          /\ spawns = 0
          /\ connectCalls = 0
          /\ conns = <<>>
    /\ isApiKeyValid = "false" <=> mainPc = "failed"
    /\ isApiKeyValid = "undefined" <=> mainPc = "validating"

\* C34 witness: validation failed in local mode with daemon management on, and the
\* server went on running until it was told to shut down.
C34_Witness ==
    /\ isApiKeyValid = "false"
    /\ mode = "local"
    /\ ~skipDaemon
    /\ lockFile = "pid"
    /\ procProbe = "ok"
    /\ proc = "exited"

\* C35: an attempt of connect() that completes an HTTP exchange ends connect() with
\* success whatever the status and the body of the reply; an attempt fails exactly
\* when the exchange was a fault (a connection fault, or the timeout of the attempt),
\* and the failure recorded is that fault.
C35_AnyReplyConnects ==
    \A k \in 1..Len(conns) :
       LET c == conns[k]
           n == Len(c.attempts)
       IN  /\ c.seen.kind = "none" <=> n = 0
           /\ c.seen.kind = "reply" <=> c.pc = "returned"
           /\ c.seen.kind = "reply" => c.attempts[n] = "ok"
           /\ c.seen.kind = "fault" =>
                 c.attempts[n] \in PingFaults /\ c.lastError = c.attempts[n]

\* C35 witness: a connect() returned on its second attempt, on a reply with status
\* 503 whose body is a string and not a response envelope.
C35_Witness ==
    \E k \in 1..Len(conns) :
       /\ conns[k].pc = "returned"
       /\ Len(conns[k].attempts) = 2
       /\ conns[k].seen.status = 503
       /\ conns[k].seen.body = "string"

\* The tool calls, and those of them that were forwarded to the daemon.
ToolActs == {k \in 1..Len(acts) : acts[k].kind = "tool"}
ForwardedActs == {k \in ToolActs : acts[k].rpc # 0}

\* C36: a tool call that finds state.isApiKeyValid false returns the key error at
\* once and is not forwarded: no call of RpcClient and no request is made for it. A
\* tool call that finds it undefined or true never returns the key error: it goes on
\* to the project checks, and every request made belongs to such a call.
C36_InvalidKeyBlocks ==
    /\ \A k \in ToolActs :
          LET a == acts[k]
          IN  /\ a.key = "false" =>
                    /\ a.pc = "returned"
                    /\ a.result = ToolError("apiKey")
                    /\ a.rpc = 0
                    /\ a.scans = 0
              /\ a.key # "false" /\ a.pc = "returned" => a.result.text # "apiKey"
              /\ a.key = "false" => isApiKeyValid = "false"
    /\ \A j \in 1..Len(rcalls) :
          \E k \in ForwardedActs :
             acts[k].rpc = rcalls[j].id /\ acts[k].key # "false"
    /\ \A j \in 1..Len(reqs) :
          \E i \in 1..Len(rcalls) : rcalls[i].id = reqs[j].id

\* C36 witness: a tool call was forwarded while validation was pending; validation
\* then failed, and a call for a project that is in the cache was refused.
C36_Witness ==
    /\ isApiKeyValid = "false"
    /\ calls >= 1
    /\ HasProjectId(cache, ExternalId)
    /\ \E k \in ToolActs :
          /\ acts[k].key = "false"
          /\ acts[k].pid = ExternalId
          /\ acts[k].result.isError

\* C37: a tool call whose projectId is set has its request sent only when the project
\* manager knows that projectId, after at most one forced rescan; a call whose projectId
\* stays unknown after the rescan, and a call without projectId to a tool other than
\* setup_project and get_project_list, is answered with an error result and has no
\* request.
C37_OnlyKnownProjects ==
    /\ \A k \in ToolActs : LET a == acts[k] IN
          /\ a.scans \in {0, 1}
          /\ a.rpc # 0 /\ a.pid # 0 => HasProjectId(cache, a.pid)
          /\ a.rpc # 0 /\ a.pid = 0 => a.name \in {"setup_project", "get_project_list"}
          /\ a.pid # 0 /\ ~HasProjectId(ScanCache(configFile, cache), a.pid)
                /\ a.pc = "returned"
                => a.rpc = 0 /\ a.result \in {ToolError("notFound"), ToolError("apiKey")}
          /\ a.result = ToolError("notFound") => a.scans = 1 /\ a.rpc = 0
          /\ a.pid = 0 /\ a.name \notin {"setup_project", "get_project_list"}
                => /\ a.pc = "returned"
                   /\ a.rpc = 0
                   /\ a.scans = 0
                   /\ a.result \in {ToolError("missing"), ToolError("apiKey")}
    /\ \A j \in 1..Len(rcalls) : \E k \in ToolActs : acts[k].rpc = rcalls[j].id

\* C37 witness: a call whose projectId was not in the cache has been forwarded after its
\* one rescan found the project in the config file.
C37_Witness ==
    \E k \in ToolActs :
       /\ acts[k].pid = ExternalId
       /\ acts[k].scans = 1
       /\ acts[k].rpc # 0
       /\ Len(rcalls) = 1

\* C38: a forwarded tool call always ends in a returned result: when RpcClient.call
\* threw, the result has isError true, and its text is the guidance exactly when the
\* message of the error names ECONNREFUSED or ENOENT, and the message otherwise; when
\* the call returned, the result is no error.
C38_ErrorsBecomeResults ==
    \A k \in ToolActs : LET a == acts[k] IN
       a.rpc # 0 /\ a.pc = "returned" =>
          IF a.res.has = "error"
          THEN /\ a.result.isError
               /\ a.result.text =
                     IF a.res.message.what = "Transport Error"
                        /\ a.res.data \in {"ECONNREFUSED", "ENOENT"}
                     THEN "guidance" ELSE "message"
          ELSE /\ ~a.result.isError
               /\ a.result.text \in {"result", "(empty result)"}

\* C38 witness: the post of a forwarded call was refused by the daemon's socket and the
\* tool call returned the guidance as an error result.
C38_Witness ==
    \E k \in ToolActs :
       /\ acts[k].pc = "returned"
       /\ acts[k].rpc # 0
       /\ acts[k].res.data = "ECONNREFUSED"
       /\ acts[k].result = ToolError("guidance")

\* The ensureProject activations, and those that have returned.
EnsureActs == {k \in 1..Len(acts) : acts[k].kind = "ensure"}
ReturnedEnsures == {k \in EnsureActs : acts[k].pc = "returned"}
\* The entries of the config file for the cache key of path p.
EntriesOf(p) ==
    IF configFile = "absent" THEN {}
    ELSE {i \in 1..Len(configFile) :
             NormalizedPath(configFile[i].path) = NormalizedPath(p)}

\* C39: ensureProject calls whose paths normalise to the same key all return the same
\* projectId, and once they have all returned the config file holds exactly one entry
\* for that key.
C39_OneProjectPerPath ==
    /\ \A k, j \in ReturnedEnsures :
          NormalizedPath(acts[k].path) = NormalizedPath(acts[j].path)
             => acts[k].result.id = acts[j].result.id
    /\ \A k \in ReturnedEnsures :
          (\A j \in EnsureActs :
              NormalizedPath(acts[j].path) = NormalizedPath(acts[k].path)
                 => acts[j].pc = "returned")
             => Cardinality(EntriesOf(acts[k].path)) = 1

\* C40: a project that an ensureProject call created and returned, for a path no other
\* call ensures, has its entry in the config file, and hasProjectId is true for its
\* projectId.
C40_NoProjectLost ==
    \A k \in ReturnedEnsures :
       /\ acts[k].made # 0
       /\ \A j \in EnsureActs \ {k} :
             NormalizedPath(acts[j].path) # NormalizedPath(acts[k].path)
       => /\ \E i \in EntriesOf(acts[k].path) : configFile[i].id = acts[k].made
          /\ HasProjectId(cache, acts[k].made)

====
